---- MODULE Spec2Model ----
(***************************************************************************)
(* A model of s3-balance: the bucket registry, the load balancer with its  *)
(* four placement strategies, the health monitor with its reporter, the    *)
(* config manager, the REST handlers, the presigner and the auth           *)
(* middleware.                                                             *)
(*                                                                         *)
(* Spec          Balancer.SelectBucket called by concurrent requests while *)
(*               health and usage reports change the registry; strategies  *)
(*               round-robin, least-space, weighted.                       *)
(* SpecRR        the same with the round-robin strategy, three buckets and *)
(*               requests of size 0.                                       *)
(* SpecStrategy  the round-robin, least-space and weighted strategies      *)
(*               called with any slice of buckets.                         *)
(* SpecRing      the consistent-hash strategy called with any slice of     *)
(*               buckets, one call after the other.                        *)
(* SpecHash      Balancer.SelectBucket with the consistent-hash strategy,  *)
(*               called by concurrent requests.                            *)
(* SpecHealth    the health monitor probing its targets and reporting to   *)
(*               the registry through the MetricsReporter.                 *)
(* SpecHealthLive  the same with fair scheduling of the monitor.           *)
(* SpecConfig    the config manager: file writes, the poller, the watcher, *)
(*               reloads and the callback goroutines.                      *)
(* SpecList      handleListBuckets served while the poller reloads.        *)
(* SpecPollLive  the config manager without fsnotify, fairly scheduled.    *)
(* SpecGetConfig callers of Manager.GetConfig writing to what they got.    *)
(* SpecPlace     the REST handlers (presign upload, multipart, download,   *)
(*               delete, object info, object delete) served concurrently   *)
(*               over the placement store, the registry and the balancer.  *)
(* SpecLimit     recordBackendOperation disabling a bucket while requests  *)
(*               call Balancer.SelectBucket and health reports come in.    *)
(* SpecStats     MetricsReporter.ReportStats next to uploads and deletes.  *)
(* SpecMultipart Presigner.GenerateMultipartUploadURLs, whose backend      *)
(*               calls fail or succeed.                                    *)
(* SpecAuth      the BasicAuth middleware serving requests with any        *)
(*               Authorization header.                                     *)
(* SpecNotify    the config manager with the callback goroutines of        *)
(*               successive reloads running side by side.                  *)
(***************************************************************************)
EXTENDS Integers, Sequences, FiniteSets, TLC

\* ------------------------------------------------------------------ bounds
\* max_size_bytes of every bucket of the model.
MaxCap == 1
\* Largest weight a bucket is configured with.
MaxWeight == 2
\* The round-robin counter (a uint64 in the code) is stopped at this value.
MaxCounter == 4
\* Virtual nodes per bucket (100 in NewConsistentHashStrategy).
Replicas == 2
\* Number of hash points (2^32 in the code).
HashSpace == 3
\* Modification times of the config file run from 0 to this value.
MaxMtime == 2
\* The config file is written at most this often.
MaxWrites == 2
\* At most this many callback goroutines of reloadConfig run at a time.
MaxNotifs == 1
\* The REST handlers serve at most this many requests.
MaxRequests == 4
\* The ceiling of every operation counter; a counter stops there.
Ceiling == 2
\* Largest partCount GenerateMultipartUploadURLs is called with.
MaxParts == 3
\* Longest payload of an Authorization header, in characters.
MaxText == 4
\* At most this many callback goroutines run at a time where they may overlap.
MaxOverlap == 2

\* ------------------------------------------------------------------ domains
Names == {"A", "B", "C"}
Procs == {"p1", "p2"}
Keys == {"k1", "k2"}
Sizes == 0 .. (MaxCap + 1)
NoBucket == "none"
NoKey == "nokey"

VARIABLES
    strategy,   \* Balancer.strategy: the strategy's Name()
    buckets,    \* bucket.Manager.buckets: name -> BucketInfo
    metricsOn,  \* MetricsReporter.metrics != nil
    reporter,   \* Monitor.reporter != nil
    targets,    \* Monitor.targets: the registered target IDs
    statuses,   \* Monitor.statuses: target ID -> status, "none" when absent
    probe,      \* per target: where its checkTarget goroutine of this checkAll is
    monitor,    \* where Start and the run loop are
    stopChan,   \* Monitor.stopChan is closed
    ctxDone,    \* the context handed to Start is cancelled
    tickSnap,   \* the targets registered when the latest checkAll took its snapshot
    probeCount, \* per target: the statuses the latest checkAll has stored for it
    startDone,  \* the checkAll of Start has returned
    file,       \* the config file: its content and its modification time
    writes,     \* how often the config file has been written
    config,     \* config.Manager.config: the live Config
    heap,       \* the backing arrays of the Buckets slices, by reference
    callbacks,  \* config.Manager.callbacks
    lastModTime,\* config.Manager.lastModTime
    cfgClosed,  \* config.Manager.stopChan is closed
    watching,   \* config.Manager.watcher != nil
    event,      \* a write event is pending in watcher.Events
    reloader,   \* pollConfig and watchConfig: where each is, and what it has loaded
    notifs,     \* the callback goroutines of reloadConfig that are running
    subCfg,     \* per subscriber: the snapshot it was last invoked with
    listPc,     \* where the handleListBuckets request is
    obs,        \* what the handleListBuckets request has read
    got,        \* per caller: the Config a GetConfig call returned
    counter,    \* RoundRobinStrategy.counter
    ring,       \* ConsistentHashStrategy.ring: hash point -> bucket
    nodes,      \* ConsistentHashStrategy.nodes
    hashOf,     \* what ConsistentHashStrategy.hash yields for each string
    pc,         \* per request: where it is inside SelectBucket
    req,        \* per request: the arguments (key, size)
    snap,       \* per request: `buckets`, the result of GetAvailableBuckets
    elig,       \* per request: the slice handed to the strategy
    ret,        \* per request: what SelectBucket returned
    rrList,     \* the slice the latest run of round-robin calls was made with
    rrWin,      \* the buckets that run selected, oldest first, at most len(rrList)
    placed,     \* per key: the bucket set and the result of its latest lookup
    store,      \* storage.Service: key -> placement record, NoRecord when absent
    handler,    \* per request: the REST handler serving it, where it is, its response
    requests,   \* how many REST requests have been received
    latest,     \* per key: the bucket of its latest RecordObject, Deleted after a DeleteObject
    stats,      \* the Stats of the latest ReportStats call
    operations, \* per bucket: its operation counter
    limited,    \* the buckets disabled by RecordOperation and not reset since
    seen,       \* per request: what `limited` was when it called GetAvailableBuckets
    mp,         \* the GenerateMultipartUploadURLs call: where it is, its locals, its result
    auth        \* the request the BasicAuth middleware serves, and what became of it

vars == <<strategy, buckets, metricsOn, reporter, targets, statuses, probe, monitor,
          stopChan, ctxDone, tickSnap, probeCount, startDone, file, writes, config,
          heap, callbacks, lastModTime, cfgClosed, watching, event, reloader, notifs,
          subCfg, listPc, obs, got, counter, ring, nodes, hashOf, pc, req,
          snap, elig, ret, rrList, rrWin, placed, store, handler, requests, latest,
          stats, operations, limited, seen, mp, auth>>

\* ------------------------------------------------------------------ helpers
SeqToSet(s) == {s[i] : i \in DOMAIN s}

Last(s, n) == IF Len(s) <= n THEN s ELSE SubSeq(s, Len(s) - n + 1, Len(s))

\* Every slice of distinct elements of S, the empty one included.
Slices(S) ==
    UNION {{f \in [1 .. n -> S] : \A i, j \in 1 .. n : i # j => f[i] # f[j]} :
           n \in 0 .. Cardinality(S)}

\* ------------------------------------------------------------------ registry
\* The order in which the registry hands out its records.
BucketOrder == <<"A", "B", "C">>

\* BucketInfo.IsAvailable
IsAvailable(b) == b.enabled /\ b.available

\* BucketInfo.GetAvailableSpace
GetAvailableSpace(b) == b.max - b.used

\* Manager.GetAvailableBuckets
GetAvailableBuckets(bs) ==
    SelectSeq(BucketOrder, LAMBDA n : n \in DOMAIN bs /\ IsAvailable(bs[n]))

\* MetricsReporter.ReportHealth: the new registry
ReportHealthEffect(bs, on, id, healthy) ==
    IF ~on THEN bs
    ELSE IF id \in DOMAIN bs
         THEN [bs EXCEPT ![id].available = healthy]
         ELSE bs

\* MetricsReporter.ReportStats: the new registry
ReportStatsEffect(bs, on, id, used) ==
    IF ~on THEN bs
    ELSE IF id \in DOMAIN bs
         THEN [bs EXCEPT ![id].used = used]
         ELSE bs

\* ------------------------------------------------------------------ balancer
OkResult(n) == [bucket |-> n, err |-> "ok", size |-> 0]

\* fmt.Errorf("no available buckets")
NoAvailableBackend == [bucket |-> NoBucket, err |-> "NoAvailableBackend", size |-> 0]

\* fmt.Errorf("no bucket has enough space for %d bytes", size)
InsufficientCapacity(size) ==
    [bucket |-> NoBucket, err |-> "InsufficientCapacity", size |-> size]

\* fmt.Errorf("no buckets available"), the strategies' own error
NoBuckets == [bucket |-> NoBucket, err |-> "NoBuckets", size |-> 0]

NoResult == [bucket |-> NoBucket, err |-> "pending", size |-> 0]

NoRequest == [key |-> NoKey, size |-> 0]

NoneAvailableWrong(list) == FALSE

\* len(buckets) == 0 after GetAvailableBuckets
NoneAvailable(list) == Len(list) = 0

HasEnoughSpaceWrong(b, size) == GetAvailableSpace(b) > size

\* bucket.GetAvailableSpace() >= size
HasEnoughSpace(b, size) == GetAvailableSpace(b) >= size

\* The filter loop of Balancer.SelectBucket
FilterSpace(bs, list, size) ==
    SelectSeq(list, LAMBDA n : HasEnoughSpace(bs[n], size))

\* ------------------------------------------------------------------ strategies
AtomicAddLost(c) == c

\* atomic.AddUint64(&s.counter, 1)
AtomicAdd(c) == c + 1

\* RoundRobinStrategy.SelectBucket: buckets[index], with c the incremented counter
RoundRobinPick(list, c) == list[(c % Len(list)) + 1]

\* sort.Slice(buckets, less) with less(i, j) = space(i) > space(j): the slice ends
\* in some order in which no element is `less` than one before it. sort.Slice is
\* not stable, so elements of equal free space end in any order.
SortedByFreeSpace(bs, list) ==
    LET n == Len(list)
        sorted(s) == \A i, j \in 1 .. n :
                        i < j => ~(GetAvailableSpace(bs[s[j]]) > GetAvailableSpace(bs[s[i]]))
    IN {s \in Slices(SeqToSet(list)) : Len(s) = n /\ sorted(s)}

\* LeastSpaceStrategy.SelectBucket: buckets[0] of each order the sort may leave
LeastSpaceOutcomes(bs, list) == {s[1] : s \in SortedByFreeSpace(bs, list)}

\* rand.Intn(n): the values it draws from
RandIntn(n) == 0 .. (n - 1)

RECURSIVE SumWeights(_, _, _)
SumWeights(bs, list, i) ==
    IF i > Len(list) THEN 0 ELSE bs[list[i]].weight + SumWeights(bs, list, i + 1)

\* totalWeight of WeightedStrategy.SelectBucket
TotalWeight(bs, list) == SumWeights(bs, list, 1)

RECURSIVE WalkWrong(_, _, _, _, _)
WalkWrong(bs, list, i, currentWeight, randomWeight) ==
    IF i > Len(list) THEN list[Len(list)]
    ELSE LET cw == currentWeight + bs[list[i]].weight
         IN IF randomWeight <= cw THEN list[i]
            ELSE WalkWrong(bs, list, i + 1, cw, randomWeight)

\* The loop of WeightedStrategy.SelectBucket from the i-th bucket on
RECURSIVE Walk(_, _, _, _, _)
Walk(bs, list, i, currentWeight, randomWeight) ==
    IF i > Len(list) THEN list[Len(list)]
    ELSE LET cw == currentWeight + bs[list[i]].weight
         IN IF randomWeight < cw THEN list[i]
            ELSE Walk(bs, list, i + 1, cw, randomWeight)

WeightedWalkWrong(bs, list, randomWeight) == WalkWrong(bs, list, 1, 0, randomWeight)

\* The walk of WeightedStrategy.SelectBucket for the draw randomWeight
WeightedWalk(bs, list, randomWeight) == Walk(bs, list, 1, 0, randomWeight)

ZeroWeightOutcomesWrong(list) == {list[i + 1] : i \in RandIntn(Len(list) - 1)}

\* The branch of WeightedStrategy.SelectBucket taken when totalWeight == 0
ZeroWeightOutcomes(list) == {list[i + 1] : i \in RandIntn(Len(list))}

\* ------------------------------------------------------------------ hash ring
\* fmt.Sprintf("%s-%d", b.Config.Name, i)
VirtualKey(name, i) == name \o "-" \o ToString(i)

\* The strings the model hashes: the request keys and the virtual keys.
Hashed == Keys \cup {VirtualKey(n, i) : n \in Names, i \in 0 .. (Replicas - 1)}

\* ConsistentHashStrategy.hash: the first four bytes of the key's MD5
Hash(key) == hashOf[key]

EmptyRing == [h \in {} |-> NoBucket]

\* The sorted slice sort.Slice(s.nodes, <) leaves: insertion of x into a sorted s
RECURSIVE InsertSorted(_, _)
InsertSorted(s, x) ==
    IF s = <<>> THEN <<x>>
    ELSE IF x < Head(s) THEN <<x>> \o s
         ELSE <<Head(s)>> \o InsertSorted(Tail(s), x)

RECURSIVE SortNodes(_)
SortNodes(s) == IF s = <<>> THEN <<>> ELSE InsertSorted(SortNodes(Tail(s)), Head(s))

\* The two loops of updateRing, k counting the virtual nodes added so far
RECURSIVE AddVirtualNodes(_, _, _)
AddVirtualNodes(list, k, acc) ==
    IF k >= Len(list) * Replicas THEN acc
    ELSE LET b == list[(k \div Replicas) + 1]
             h == Hash(VirtualKey(b, k % Replicas))
             r == [x \in DOMAIN acc.ring \cup {h} |-> IF x = h THEN b ELSE acc.ring[x]]
         IN AddVirtualNodes(list, k + 1, [ring |-> r, nodes |-> Append(acc.nodes, h)])

\* ConsistentHashStrategy.updateRing: the ring and the nodes it leaves
UpdateRing(list) ==
    LET acc == AddVirtualNodes(list, 0, [ring |-> EmptyRing, nodes |-> <<>>])
    IN [ring |-> acc.ring, nodes |-> SortNodes(acc.nodes)]

\* sort.Search(n, f) with f(i) = s.nodes[i] >= hash, indices from 0
RECURSIVE Search(_, _, _, _)
Search(ns, h, i, j) ==
    IF i < j
    THEN LET m == (i + j) \div 2
         IN IF ~(ns[m + 1] >= h) THEN Search(ns, h, m + 1, j) ELSE Search(ns, h, i, m)
    ELSE i

\* The lookup of ConsistentHashStrategy.SelectBucket
RingLookup(rg, ns, key) ==
    LET found == Search(ns, Hash(key), 0, Len(ns))
        idx == IF found = Len(ns) THEN 0 ELSE found
    IN rg[ns[idx + 1]]

\* ------------------------------------------------------------------ config manager
\* The valid contents of the config file, and a content config.Load rejects.
Configs == {"c1", "c2"}
Invalid == "invalid"
NoConfig == "nocfg"

\* The subscribers of the config manager.
Subs == {"registry", "balancer"}
Reloaders == {"poller", "watcher"}

\* Balancer.Strategy of a config file content
StrategyOf(c) == IF c = "c1" THEN "round-robin" ELSE "least-space"

\* The reference of the Buckets slice config.Load builds from a content
RefOf(c) == IF c = "c1" THEN "r1" ELSE "r2"

\* Buckets of a config file content
BucketsOf(c) == IF c = "c1" THEN <<"A">> ELSE <<"A", "B">>

\* config.Load of a valid content: the Config struct, its Buckets a slice
Load(c) == [id |-> c, strategy |-> StrategyOf(c), buckets |-> RefOf(c)]

\* The backing arrays as config.Load fills them
LoadedHeap == [r \in {"r1", "r2"} |-> IF r = "r1" THEN BucketsOf("c1") ELSE BucketsOf("c2")]

NoConfigValue == [id |-> NoConfig, strategy |-> NoConfig, buckets |-> NoConfig]

Idle == [pc |-> "wait", loaded |-> NoConfig]

\* fileInfo.ModTime().After(m.lastModTime)
ModTimeAfter(t, last) == t > last

NextIndexWrong(idx, len, panicked) == IF panicked THEN len + 1 ELSE idx + 1

\* The loop of the callback goroutine: a recovered panic does not leave the loop
NextIndex(idx, len, panicked) == idx + 1

LoadFailsWrong(content) == FALSE

\* config.Load returns an error
LoadFails(content) == content = Invalid

\* A sequence without its i-th element
Remove(seq, i) == SubSeq(seq, 1, i - 1) \o SubSeq(seq, i + 1, Len(seq))

\* NewManager of a file holding c; w: fsnotify could be set up; cbs: the
\* subscribers registered right after it
NewManager(c, w, cbs) ==
    /\ file = [content |-> c, mtime |-> 1]
    /\ writes = 0
    /\ config = Load(c)
    /\ heap = LoadedHeap
    /\ callbacks = cbs
    /\ lastModTime = 1
    /\ cfgClosed = FALSE
    /\ watching = w
    /\ event = FALSE
    /\ reloader = [r \in Reloaders |->
                     IF r = "watcher" /\ ~w THEN [Idle EXCEPT !.pc = "exited"] ELSE Idle]
    /\ notifs = <<>>
    /\ subCfg = [u \in Subs |-> c]
    /\ listPc = "idle"
    /\ obs = [buckets |-> <<>>, strategy |-> NoConfig]
    /\ got = [p \in Procs |-> NoConfigValue]

InitManager == NewManager("c1", TRUE, <<>>)

\* ------------------------------------------------------------------ REST handlers
\* net/http status codes the handlers answer with
StatusOK == 200
StatusBadRequest == 400
StatusNotFound == 404
StatusInternalServerError == 500
StatusBadGateway == 502
StatusServiceUnavailable == 503

\* The empty key of a request body without one
EmptyKey == ""

\* What a lookup of an absent key yields
NoRecord == [bucket |-> NoBucket, size |-> 0]

NoStats == [id |-> NoBucket, used |-> 0]

\* bucket.OperationCategory
Categories == {"A", "B"}

\* BucketInfo.RecordOperation: the counter after the increment
Increment(ops, name, category) == [ops EXCEPT ![name][category] = @ + 1]

\* BucketInfo.RecordOperation: the counter has reached its ceiling
LimitReached(ops, name, category) == ops[name][category] >= Ceiling

\* What `latest` holds for a key once it has been deleted
Deleted == "deleted"

\* storage.Service.RecordObject: upsert, the last write wins on every field
RecordObject(st, key, name, size) == [st EXCEPT ![key] = [bucket |-> name, size |-> size]]

\* storage.Service.GetObjectInfo
GetObjectInfo(st, key) == st[key]

\* storage.Service.FindObjectBucket
FindObjectBucket(st, key) == st[key].bucket

\* storage.Service.DeleteObject
DeleteObject(st, key) == [st EXCEPT ![key] = NoRecord]

\* BucketInfo.UpdateUsedSize on the record the handler holds: an atomic add. A
\* record dropped from the registry meanwhile is no longer the registry's.
UpdateUsedSize(bs, name, delta) ==
    IF name \in DOMAIN bs THEN [bs EXCEPT ![name].used = @ + delta] ELSE bs

ObjectMissingWrong(rec) == FALSE

\* err != nil of GetObjectInfo and FindObjectBucket
ObjectMissing(rec) == rec = NoRecord

BucketMissingWrong(bs, name) == FALSE

\* !ok of Manager.GetBucket
BucketMissing(bs, name) == name \notin DOMAIN bs

RecordedNameWrong(name) == IF name = "A" THEN "B" ELSE "A"

\* bucket.Config.Name, the bucket name handed to RecordObject
RecordedName(name) == name

ReservedDeltaWrong(size) == 0

\* req.Size, the delta handed to UpdateUsedSize on placement
ReservedDelta(size) == size

\* What a request has added to the used_size of a bucket of the registry
Added(bs, name, delta) == IF name \in DOMAIN bs THEN delta ELSE 0

\* sendError and sendJSON: the response a handler ends with
Respond(h, status, kind) == [h EXCEPT !.pc = "done", !.status = status, !.kind = kind]

\* A request slot no handler is serving
NoHandler ==
    [op |-> "none", pc |-> "idle", key |-> NoKey, size |-> 0, bucket |-> NoBucket,
     status |-> 0, kind |-> "none", answer |-> NoBucket, after |-> FALSE,
     expect |-> NoBucket, recorded |-> "pending", delta |-> 0]

\* No record, no request, no operation counted
InitApi ==
    /\ store = [k \in Keys |-> NoRecord]
    /\ handler = [p \in Procs |-> NoHandler]
    /\ requests = 0
    /\ latest = [k \in Keys |-> NoBucket]
    /\ stats = NoStats
    /\ operations = [n \in Names |-> [c \in Categories |-> 0]]
    /\ limited = {}
    /\ seen = [p \in Procs |-> {}]

\* ------------------------------------------------------------------ presigner
\* The s3 backend hands out one of these UploadIds
UploadIds == {"u1", "u2"}
NoUpload == "noupload"

\* A *MultipartUploadURLs is nil or points to one struct
Nil == <<>>

\* The URL PresignUploadPart signs for part i of an upload
PartURL(name, key, upload, i) == [bucket |-> name, key |-> key, upload |-> upload, part |-> i]

\* partURLs[i] = presignRequest.URL
PutPart(urls, i, url) == [j \in DOMAIN urls \cup {i} |-> IF j = i THEN url ELSE urls[j]]

LoopDoneWrong(i, partCount) == i >= partCount

\* The loop condition i <= partCount no longer holds
LoopDone(i, partCount) == ~(i <= partCount)

\* &MultipartUploadURLs{...}
MultipartUploadURLs(upload, urls, name, key) ==
    <<[UploadID |-> upload, PartURLs |-> urls, BucketName |-> name, Key |-> key]>>

\* No GenerateMultipartUploadURLs call is running
NoCall ==
    [pc |-> "idle", bucket |-> NoBucket, key |-> NoKey, partCount |-> 0,
     upload |-> NoUpload, i |-> 0, partURLs |-> <<>>, aborted |-> {},
     result |-> Nil, err |-> "none"]

\* ------------------------------------------------------------------ auth middleware
\* The characters of access keys, secret keys and decoded payloads
Chars == {"a", "s", ":"}

\* base64.StdEncoding, character by character: what each character is encoded as
Encoding == [c \in Chars |-> CASE c = "a" -> "A" [] c = "s" -> "S" [] OTHER -> "C"]

\* The base64 alphabet
Alphabet == {Encoding[c] : c \in Chars}

\* A character outside the base64 alphabet
Illegal == "!"

BasicPrefix == <<"Basic", " ">>

\* Header.Get("Authorization") of a request without the header
NoHeader == <<>>

\* Every string of at most n characters of the set
Strings(set, n) == UNION {[1 .. m -> set] : m \in 0 .. n}

\* strings.HasPrefix
HasPrefix(s, prefix) == Len(s) >= Len(prefix) /\ SubSeq(s, 1, Len(prefix)) = prefix

\* strings.TrimPrefix
TrimPrefix(s, prefix) == IF HasPrefix(s, prefix) THEN SubSeq(s, Len(prefix) + 1, Len(s)) ELSE s

\* base64.StdEncoding.EncodeToString
EncodeToString(text) == [j \in DOMAIN text |-> Encoding[text[j]]]

\* base64.StdEncoding.DecodeString
DecodeString(payload) ==
    IF \A j \in DOMAIN payload : payload[j] \in Alphabet
    THEN [decoded |-> [j \in DOMAIN payload |-> CHOOSE c \in Chars : Encoding[c] = payload[j]],
          err |-> FALSE]
    ELSE [decoded |-> <<>>, err |-> TRUE]

\* The index of the first sep of s, 0 when there is none
RECURSIVE Index(_, _, _)
Index(s, sep, from) ==
    IF from > Len(s) THEN 0
    ELSE IF s[from] = sep THEN from
    ELSE Index(s, sep, from + 1)

\* strings.SplitN(s, sep, 2)
SplitN2(s, sep) ==
    LET k == Index(s, sep, 1)
    IN IF k = 0 THEN <<s>> ELSE <<SubSeq(s, 1, k - 1), SubSeq(s, k + 1, Len(s))>>

\* cfg.Required, nil or a function answering false or true
RequiredValues == {"nil", "false", "true"}

\* required := false; if cfg.Required != nil { required = cfg.Required() }
RequiredOf(r) == r = "true"

\* cfg.Credentials, nil or one function answering (accessKey, secretKey)
NoCredentials == <<>>
AccessKeys == {<<>>, <<"a">>, <<"a", ":">>}
SecretKeys == {<<>>, <<"s">>, <<":", "s">>}
CredentialValues ==
    {NoCredentials} \cup {<<[access |-> a, secret |-> k]>> : a \in AccessKeys, k \in SecretKeys}

\* accessKey, secretKey := "", ""; if cfg.Credentials != nil { ... = cfg.Credentials() }
CredentialsOf(c) == IF c = NoCredentials THEN [access |-> <<>>, secret |-> <<>>] ELSE c[1]

AccessMismatchWrong(part, accessKey) == FALSE

\* parts[0] != accessKey
AccessMismatch(part, accessKey) == part # accessKey

SecretMismatchWrong(part, secretKey) == FALSE

\* parts[1] != secretKey
SecretMismatch(part, secretKey) == part # secretKey

\* The middleware before its first request
NoAuth(r, c) ==
    [pc |-> "idle", required |-> r, credentials |-> c, header |-> NoHeader,
     invoked |-> FALSE, code |-> "none"]

\* No presigner call is running; the middleware requires no authentication
InitLib ==
    /\ mp = NoCall
    /\ auth = NoAuth("nil", NoCredentials)

\* ------------------------------------------------------------------ Init
BucketInfo(weight, used) ==
    [enabled |-> TRUE, available |-> TRUE, used |-> used, max |-> MaxCap,
     weight |-> weight]

InitCalls ==
    /\ pc = [p \in Procs |-> "idle"]
    /\ req = [p \in Procs |-> NoRequest]
    /\ snap = [p \in Procs |-> <<>>]
    /\ elig = [p \in Procs |-> <<>>]
    /\ ret = [p \in Procs |-> NoResult]

InitStrategyState ==
    /\ counter = 0
    /\ ring = EmptyRing
    /\ nodes = <<>>
    /\ rrList = <<>>
    /\ rrWin = <<>>
    /\ placed = [k \in Keys |-> [set |-> {}, bucket |-> NoBucket]]

NoHash == [k \in Hashed |-> 0]

\* NewMonitor: no target, no status, the loop not started
InitMonitor ==
    /\ reporter = TRUE
    /\ targets = {}
    /\ statuses = [n \in Names |-> "none"]
    /\ probe = [n \in Names |-> "none"]
    /\ monitor = "new"
    /\ stopChan = FALSE
    /\ ctxDone = FALSE
    /\ tickSnap = {}
    /\ probeCount = [n \in Names |-> 0]
    /\ startDone = FALSE

Init ==
    /\ strategy \in {"round-robin", "least-space", "weighted"}
    /\ \E registered \in {{}, {"A", "B"}} :
       \E w \in {0, 1} :
          /\ strategy # "weighted" => w = 1
          /\ buckets = [n \in registered |-> BucketInfo(w, 0)]
    /\ metricsOn = TRUE
    /\ hashOf = NoHash
    /\ InitStrategyState
    /\ InitCalls
    /\ InitApi
    /\ InitLib
    /\ InitManager
    /\ InitMonitor

\* ------------------------------------------------------------------ actions
callVars == <<pc, req, snap, elig, ret>>
rrVars == <<counter, rrList, rrWin>>
hashVars == <<ring, nodes, hashOf, placed>>
libVars == <<mp, auth>>
confVars == <<strategy, metricsOn, reporter, libVars>>
histVars == <<tickSnap, probeCount, startDone>>
fileVars == <<file, writes, event>>
mgrVars == <<config, callbacks, lastModTime, cfgClosed, watching, reloader>>
subVars == <<notifs, subCfg>>
reqVars == <<listPc, obs>>
cfgVars == <<fileVars, mgrVars, subVars, reqVars, heap, got>>
monVars == <<targets, statuses, probe, monitor, stopChan, ctxDone, histVars>>
placeVars == <<store, handler, requests, latest, stats>>
limitVars == <<operations, limited, seen>>
apiVars == <<placeVars, limitVars>>

\* Balancer.SelectBucket up to `if len(buckets) == 0`
SelectBucketBegin(p, keys, sizes) ==
    /\ pc[p] = "idle"
    /\ \E key \in keys, size \in sizes :
          LET list == GetAvailableBuckets(buckets)
          IN /\ req' = [req EXCEPT ![p] = [key |-> key, size |-> size]]
             /\ snap' = [snap EXCEPT ![p] = list]
             /\ seen' = [seen EXCEPT ![p] = limited]
             /\ IF NoneAvailable(list)
                THEN /\ ret' = [ret EXCEPT ![p] = NoAvailableBackend]
                     /\ pc' = [pc EXCEPT ![p] = "done"]
                ELSE /\ ret' = ret
                     /\ pc' = [pc EXCEPT ![p] = "filter"]
    /\ UNCHANGED <<placeVars, operations, limited, confVars, cfgVars, monVars, buckets, elig,
                   rrVars, hashVars>>

\* Balancer.SelectBucket: the filter loop and `if len(availableBuckets) == 0`
SelectBucketFilter(p) ==
    /\ pc[p] = "filter"
    /\ LET list == FilterSpace(buckets, snap[p], req[p].size)
       IN /\ elig' = [elig EXCEPT ![p] = list]
          /\ IF Len(list) = 0
             THEN /\ ret' = [ret EXCEPT ![p] = InsufficientCapacity(req[p].size)]
                  /\ pc' = [pc EXCEPT ![p] = "done"]
             ELSE /\ ret' = ret
                  /\ pc' = [pc EXCEPT ![p] = "strategy"]
    /\ UNCHANGED <<apiVars, confVars, cfgVars, monVars, buckets, req, snap, rrVars, hashVars>>

\* Strategy.SelectBucket called with a slice of the caller's own choice
CallStrategy(p, keys) ==
    /\ pc[p] = "idle"
    /\ \E key \in keys, list \in Slices(DOMAIN buckets) :
          /\ req' = [req EXCEPT ![p] = [key |-> key, size |-> 0]]
          /\ elig' = [elig EXCEPT ![p] = list]
    /\ pc' = [pc EXCEPT ![p] = "strategy"]
    /\ UNCHANGED <<apiVars, confVars, cfgVars, monVars, buckets, snap, ret, rrVars, hashVars>>

\* `if len(buckets) == 0` at the head of every strategy's SelectBucket
StrategyRejectsEmpty(p) ==
    /\ pc[p] = "strategy"
    /\ Len(elig[p]) = 0
    /\ ret' = [ret EXCEPT ![p] = NoBuckets]
    /\ pc' = [pc EXCEPT ![p] = "done"]
    /\ UNCHANGED <<apiVars, confVars, cfgVars, monVars, buckets, req, snap, elig, rrVars, hashVars>>

\* RoundRobinStrategy.SelectBucket
RoundRobinSelect(p) ==
    /\ pc[p] = "strategy"
    /\ strategy = "round-robin"
    /\ Len(elig[p]) > 0
    /\ counter < MaxCounter
    /\ LET c == AtomicAdd(counter)
           b == RoundRobinPick(elig[p], c)
       IN /\ counter' = c
          /\ ret' = [ret EXCEPT ![p] = OkResult(b)]
          /\ rrList' = elig[p]
          /\ rrWin' = IF elig[p] = rrList
                      THEN Last(Append(rrWin, b), Len(elig[p]))
                      ELSE <<b>>
    /\ pc' = [pc EXCEPT ![p] = "done"]
    /\ UNCHANGED <<apiVars, confVars, cfgVars, monVars, buckets, req, snap, elig, hashVars>>

\* LeastSpaceStrategy.SelectBucket
LeastSpaceSelect(p) ==
    /\ pc[p] = "strategy"
    /\ strategy = "least-space"
    /\ Len(elig[p]) > 0
    /\ \E b \in LeastSpaceOutcomes(buckets, elig[p]) :
          ret' = [ret EXCEPT ![p] = OkResult(b)]
    /\ pc' = [pc EXCEPT ![p] = "done"]
    /\ UNCHANGED <<apiVars, confVars, cfgVars, monVars, buckets, req, snap, elig, rrVars, hashVars>>

\* WeightedStrategy.SelectBucket; the draw is kept in the result's size field
WeightedSelect(p) ==
    /\ pc[p] = "strategy"
    /\ strategy = "weighted"
    /\ Len(elig[p]) > 0
    /\ LET total == TotalWeight(buckets, elig[p])
       IN IF total = 0
          THEN \E b \in ZeroWeightOutcomes(elig[p]) :
                  ret' = [ret EXCEPT ![p] = OkResult(b)]
          ELSE \E r \in RandIntn(total) :
                  ret' = [ret EXCEPT ![p] =
                            [OkResult(WeightedWalk(buckets, elig[p], r)) EXCEPT !.size = r]]
    /\ pc' = [pc EXCEPT ![p] = "done"]
    /\ UNCHANGED <<apiVars, confVars, cfgVars, monVars, buckets, req, snap, elig, rrVars, hashVars>>

\* ConsistentHashStrategy.SelectBucket: s.updateRing(buckets)
ConsistentHashUpdate(p) ==
    /\ pc[p] = "strategy"
    /\ strategy = "consistent-hash"
    /\ Len(elig[p]) > 0
    /\ LET u == UpdateRing(elig[p])
       IN /\ ring' = u.ring
          /\ nodes' = u.nodes
    /\ pc' = [pc EXCEPT ![p] = "lookup"]
    /\ UNCHANGED <<apiVars, confVars, cfgVars, monVars, buckets, req, snap, elig, ret, rrVars, hashOf, placed>>

\* ConsistentHashStrategy.SelectBucket: the lookup under the read lock
ConsistentHashLookup(p) ==
    /\ pc[p] = "lookup"
    /\ LET b == RingLookup(ring, nodes, req[p].key)
       IN /\ ret' = [ret EXCEPT ![p] = OkResult(b)]
          /\ placed' = [placed EXCEPT ![req[p].key] =
                          [set |-> SeqToSet(elig[p]), bucket |-> b]]
    /\ pc' = [pc EXCEPT ![p] = "done"]
    /\ UNCHANGED <<apiVars, confVars, cfgVars, monVars, buckets, req, snap, elig, rrVars, ring, nodes, hashOf>>

\* The caller has taken the result of SelectBucket
Return(p) ==
    /\ pc[p] = "done"
    /\ pc' = [pc EXCEPT ![p] = "idle"]
    /\ req' = [req EXCEPT ![p] = NoRequest]
    /\ snap' = [snap EXCEPT ![p] = <<>>]
    /\ elig' = [elig EXCEPT ![p] = <<>>]
    /\ ret' = [ret EXCEPT ![p] = NoResult]
    /\ UNCHANGED <<apiVars, confVars, cfgVars, monVars, buckets, rrVars, hashVars>>

\* MetricsReporter.ReportHealth, called with a probe's status
ReportHealth ==
    /\ \E id \in Names, healthy \in BOOLEAN :
          /\ buckets' = ReportHealthEffect(buckets, metricsOn, id, healthy)
          /\ buckets' # buckets
    /\ UNCHANGED <<apiVars, confVars, cfgVars, monVars, callVars, rrVars, hashVars>>

\* MetricsReporter.ReportStats, called with a probe's stats
ReportStats ==
    /\ \E id \in Names, used \in 0 .. MaxCap :
          /\ buckets' = ReportStatsEffect(buckets, metricsOn, id, used)
          /\ buckets' # buckets
    /\ UNCHANGED <<apiVars, confVars, cfgVars, monVars, callVars, rrVars, hashVars>>

Next ==
    \/ \E p \in Procs : SelectBucketBegin(p, {"k1"}, Sizes)
    \/ \E p \in Procs : SelectBucketFilter(p)
    \/ \E p \in Procs : RoundRobinSelect(p)
    \/ \E p \in Procs : LeastSpaceSelect(p)
    \/ \E p \in Procs : WeightedSelect(p)
    \/ \E p \in Procs : Return(p)
    \/ ReportHealth
    \/ ReportStats

Spec == Init /\ [][Next]_vars

\* ------------------------------------------------------------------ SpecRR
InitRR ==
    /\ strategy = "round-robin"
    /\ buckets = [n \in Names |-> BucketInfo(1, 0)]
    /\ metricsOn = TRUE
    /\ hashOf = NoHash
    /\ InitStrategyState
    /\ InitCalls
    /\ InitApi
    /\ InitLib
    /\ InitManager
    /\ InitMonitor

NextRR ==
    \/ \E p \in Procs : SelectBucketBegin(p, {"k1"}, {0})
    \/ \E p \in Procs : SelectBucketFilter(p)
    \/ \E p \in Procs : RoundRobinSelect(p)
    \/ \E p \in Procs : Return(p)
    \/ ReportHealth

SpecRR == InitRR /\ [][NextRR]_vars

\* ------------------------------------------------------------------ SpecStrategy
InitStrategy ==
    /\ strategy \in {"round-robin", "least-space", "weighted"}
    /\ \E w \in [Names -> 0 .. MaxWeight], u \in [Names -> 0 .. MaxCap] :
          /\ strategy # "weighted" => w = [n \in Names |-> 1]
          /\ strategy # "least-space" => u = [n \in Names |-> 0]
          /\ buckets = [n \in Names |-> BucketInfo(w[n], u[n])]
    /\ metricsOn = TRUE
    /\ hashOf = NoHash
    /\ InitStrategyState
    /\ InitCalls
    /\ InitApi
    /\ InitLib
    /\ InitManager
    /\ InitMonitor

NextStrategy ==
    \/ CallStrategy("p1", {"k1"})
    \/ StrategyRejectsEmpty("p1")
    \/ RoundRobinSelect("p1")
    \/ LeastSpaceSelect("p1")
    \/ WeightedSelect("p1")
    \/ Return("p1")

SpecStrategy == InitStrategy /\ [][NextStrategy]_vars

\* ------------------------------------------------------------------ SpecRing
InitRing ==
    /\ strategy = "consistent-hash"
    /\ buckets = [n \in {"A", "B"} |-> BucketInfo(1, 0)]
    /\ metricsOn = TRUE
    /\ hashOf \in [Hashed -> 0 .. (HashSpace - 1)]
    /\ \A n \in Names \ {"A", "B"}, i \in 0 .. (Replicas - 1) : hashOf[VirtualKey(n, i)] = 0
    /\ InitStrategyState
    /\ InitCalls
    /\ InitApi
    /\ InitLib
    /\ InitManager
    /\ InitMonitor

NextRing ==
    \/ CallStrategy("p1", Keys)
    \/ StrategyRejectsEmpty("p1")
    \/ ConsistentHashUpdate("p1")
    \/ ConsistentHashLookup("p1")
    \/ Return("p1")

SpecRing == InitRing /\ [][NextRing]_vars

\* ------------------------------------------------------------------ SpecHash
InitHash ==
    /\ strategy = "consistent-hash"
    /\ buckets = [n \in {"A", "B"} |-> BucketInfo(1, IF n = "B" THEN MaxCap ELSE 0)]
    /\ metricsOn = TRUE
    /\ hashOf \in [Hashed -> 0 .. (HashSpace - 1)]
    /\ \A n \in Names \ {"A", "B"}, i \in 0 .. (Replicas - 1) : hashOf[VirtualKey(n, i)] = 0
    /\ hashOf["k2"] = 0
    /\ InitStrategyState
    /\ InitCalls
    /\ InitApi
    /\ InitLib
    /\ InitManager
    /\ InitMonitor

NextHash ==
    \/ \E p \in Procs : SelectBucketBegin(p, {"k1"}, {0, MaxCap})
    \/ \E p \in Procs : SelectBucketFilter(p)
    \/ \E p \in Procs : ConsistentHashUpdate(p)
    \/ \E p \in Procs : ConsistentHashLookup(p)
    \/ \E p \in Procs : Return(p)

SpecHash == InitHash /\ [][NextHash]_vars

\* ------------------------------------------------------------------ SpecHealth
\* The status a probe yields
StatusOf(healthy) == IF healthy THEN "healthy" ELSE "unhealthy"

FanOutWrong == [n \in Names |-> IF n \in targets /\ n = "A" THEN "spawned" ELSE "none"]

\* Monitor.checkAll: the snapshot of the targets and one goroutine per target
FanOut == [n \in Names |-> IF n \in targets THEN "spawned" ELSE "none"]

NoProbeWrong == \A n \in Names : probe[n] # "spawned"

\* No checkTarget goroutine of a checkAll is running
NoProbe == \A n \in Names : probe[n] = "none"

\* Monitor.RegisterTarget
RegisterTarget(t) ==
    /\ t \notin targets
    /\ targets' = targets \cup {t}
    /\ UNCHANGED <<apiVars, confVars, cfgVars, buckets, statuses, probe, monitor, stopChan, ctxDone,
                   histVars, callVars, rrVars, hashVars>>

\* Monitor.UnregisterTarget
UnregisterTarget(t) ==
    /\ t \in targets
    /\ targets' = targets \ {t}
    /\ statuses' = [statuses EXCEPT ![t] = "none"]
    /\ UNCHANGED <<apiVars, confVars, cfgVars, buckets, probe, monitor, stopChan, ctxDone,
                   histVars, callVars, rrVars, hashVars>>

\* Monitor.Start: m.checkAll(ctx) up to wg.Wait()
MonitorStart ==
    /\ monitor = "new"
    /\ probe' = FanOut
    /\ monitor' = "startCheck"
    /\ tickSnap' = targets
    /\ probeCount' = [n \in Names |-> 0]
    /\ UNCHANGED <<apiVars, confVars, cfgVars, buckets, targets, statuses, stopChan, ctxDone, startDone,
                   callVars, rrVars, hashVars>>

\* Monitor.run: case <-ticker.C, m.checkAll(ctx) up to wg.Wait()
Tick ==
    /\ monitor = "waiting"
    /\ probe' = FanOut
    /\ monitor' = "tickCheck"
    /\ tickSnap' = targets
    /\ probeCount' = [n \in Names |-> 0]
    /\ UNCHANGED <<apiVars, confVars, cfgVars, buckets, targets, statuses, stopChan, ctxDone, startDone,
                   callVars, rrVars, hashVars>>

\* Monitor.checkTarget: m.checker.Check and the write of m.statuses under the lock
CheckTargetProbe(t) ==
    /\ probe[t] = "spawned"
    /\ \E healthy \in BOOLEAN :
          /\ statuses' = [statuses EXCEPT ![t] = StatusOf(healthy)]
          /\ probe' = [probe EXCEPT ![t] = StatusOf(healthy)]
    /\ probeCount' = [probeCount EXCEPT ![t] = @ + 1]
    /\ UNCHANGED <<apiVars, confVars, cfgVars, buckets, targets, monitor, stopChan, ctxDone, tickSnap,
                   startDone, callVars, rrVars, hashVars>>

\* Monitor.checkTarget: `if m.reporter != nil { m.reporter.ReportHealth(...) }`
CheckTargetReport(t) ==
    /\ probe[t] \in {"healthy", "unhealthy"}
    /\ buckets' = IF reporter
                  THEN ReportHealthEffect(buckets, metricsOn, t, probe[t] = "healthy")
                  ELSE buckets
    /\ probe' = [probe EXCEPT ![t] = "none"]
    /\ UNCHANGED <<apiVars, confVars, cfgVars, targets, statuses, monitor, stopChan, ctxDone, histVars,
                   callVars, rrVars, hashVars>>

\* Monitor.checkAll: wg.Wait() returns; after Start's checkAll, `go m.run(ctx)`
CheckAllDone ==
    /\ monitor \in {"startCheck", "tickCheck"}
    /\ NoProbe
    /\ monitor' = "waiting"
    /\ startDone' = TRUE
    /\ UNCHANGED <<apiVars, confVars, cfgVars, buckets, targets, statuses, probe, stopChan, ctxDone,
                   tickSnap, probeCount, callVars, rrVars, hashVars>>

\* Monitor.Stop
Stop ==
    /\ ~stopChan
    /\ stopChan' = TRUE
    /\ UNCHANGED <<apiVars, confVars, cfgVars, buckets, targets, statuses, probe, monitor, ctxDone,
                   histVars, callVars, rrVars, hashVars>>

\* The owner of the context cancels it
Cancel ==
    /\ ~ctxDone
    /\ ctxDone' = TRUE
    /\ UNCHANGED <<apiVars, confVars, cfgVars, buckets, targets, statuses, probe, monitor, stopChan,
                   histVars, callVars, rrVars, hashVars>>

StopSignalledWrong == stopChan

\* Monitor.run: one of `case <-ctx.Done()` and `case <-m.stopChan` is ready
StopSignalled == stopChan \/ ctxDone

\* Monitor.run: case <-ctx.Done() or case <-m.stopChan
RunExit ==
    /\ monitor = "waiting"
    /\ StopSignalled
    /\ monitor' = "exited"
    /\ UNCHANGED <<apiVars, confVars, cfgVars, buckets, targets, statuses, probe, stopChan, ctxDone,
                   histVars, callVars, rrVars, hashVars>>

InitHealth ==
    /\ strategy = "round-robin"
    /\ buckets = [n \in {"A", "B"} |-> BucketInfo(1, 0)]
    /\ metricsOn \in BOOLEAN
    /\ hashOf = NoHash
    /\ InitStrategyState
    /\ InitCalls
    /\ InitApi
    /\ InitLib
    /\ InitManager
    /\ reporter = TRUE
    /\ targets = {"A", "B"}
    /\ statuses = [n \in Names |-> "none"]
    /\ probe = [n \in Names |-> "none"]
    /\ monitor = "new"
    /\ stopChan = FALSE
    /\ ctxDone = FALSE
    /\ tickSnap = {}
    /\ probeCount = [n \in Names |-> 0]
    /\ startDone = FALSE

NextHealth ==
    \/ \E t \in DOMAIN buckets : RegisterTarget(t)
    \/ \E t \in DOMAIN buckets : UnregisterTarget(t)
    \/ MonitorStart
    \/ Tick
    \/ \E t \in Names : CheckTargetProbe(t)
    \/ \E t \in Names : CheckTargetReport(t)
    \/ CheckAllDone
    \/ Stop
    \/ Cancel
    \/ RunExit

SpecHealth == InitHealth /\ [][NextHealth]_vars

\* The goroutines of a checkAll run to their end, wg.Wait() returns once they have,
\* and the select of Monitor.run, which picks among its ready cases at random,
\* does not pass over a ready stop or cancel case forever.
FairHealth ==
    /\ \A t \in Names : WF_vars(CheckTargetProbe(t))
    /\ \A t \in Names : WF_vars(CheckTargetReport(t))
    /\ WF_vars(CheckAllDone)
    /\ SF_vars(RunExit)

SpecHealthLive == InitHealth /\ [][NextHealth]_vars /\ FairHealth

\* ------------------------------------------------------------------ SpecConfig
otherVars == <<apiVars, confVars, monVars, buckets, callVars, rrVars, hashVars>>

\* Somebody writes the config file; the watcher, if there is one, may get an event
FileWrite ==
    /\ writes < MaxWrites
    /\ writes' = writes + 1
    /\ \E c \in Configs \cup {Invalid}, t \in 0 .. MaxMtime :
          /\ t # file.mtime
          /\ file' = [content |-> c, mtime |-> t]
    /\ event' \in (IF watching /\ ~cfgClosed THEN {event, TRUE} ELSE {event})
    /\ UNCHANGED <<otherVars, mgrVars, subVars, reqVars, heap, got>>

\* Manager.OnConfigChange
OnConfigChange(u) ==
    /\ u \notin SeqToSet(callbacks)
    /\ callbacks' = Append(callbacks, u)
    /\ UNCHANGED <<otherVars, fileVars, config, lastModTime, cfgClosed, watching,
                   reloader, subVars, reqVars, heap, got>>

\* Manager.pollConfig: a tick that finds the file modified, up to m.reloadConfig()
PollTick ==
    /\ reloader["poller"].pc = "wait"
    /\ ~cfgClosed
    /\ ModTimeAfter(file.mtime, lastModTime)
    /\ lastModTime' = file.mtime
    /\ reloader' = [reloader EXCEPT !["poller"].pc = "load"]
    /\ UNCHANGED <<otherVars, fileVars, config, callbacks, cfgClosed, watching,
                   subVars, reqVars, heap, got>>

\* Manager.watchConfig: a write event, up to m.reloadConfig()
WatchEvent ==
    /\ reloader["watcher"].pc = "wait"
    /\ event
    /\ event' = FALSE
    /\ lastModTime' = file.mtime
    /\ reloader' = [reloader EXCEPT !["watcher"].pc = "load"]
    /\ UNCHANGED <<otherVars, file, writes, config, callbacks, cfgClosed, watching,
                   subVars, reqVars, heap, got>>

\* Manager.reloadConfig: the sleep and Load(m.configFile)
ReloadLoad(r) ==
    /\ reloader[r].pc = "load"
    /\ reloader' = [reloader EXCEPT ![r] =
                      IF LoadFails(file.content)
                      THEN Idle
                      ELSE [pc |-> "swap", loaded |-> file.content]]
    /\ UNCHANGED <<otherVars, fileVars, config, callbacks, lastModTime, cfgClosed,
                   watching, subVars, reqVars, heap, got>>

\* Manager.reloadConfig: the swap under the lock and `go func()`, while fewer than
\* cap callback goroutines are running
ReloadSwapCapped(r, cap) ==
    /\ reloader[r].pc = "swap"
    /\ Len(notifs) < cap
    /\ config' = Load(reloader[r].loaded)
    /\ notifs' = Append(notifs, [cfg |-> reloader[r].loaded, list |-> callbacks,
                                 idx |-> 1, calls |-> <<>>])
    /\ reloader' = [reloader EXCEPT ![r] = Idle]
    /\ UNCHANGED <<otherVars, fileVars, callbacks, lastModTime, cfgClosed, watching,
                   subCfg, reqVars, heap, got>>

ReloadSwap(r) == ReloadSwapCapped(r, MaxNotifs)

\* The callback goroutine: callback(newConfig), which returns or panics
Invoke(i) ==
    /\ i \in DOMAIN notifs
    /\ notifs[i].idx <= Len(notifs[i].list)
    /\ \E panicked \in BOOLEAN :
          LET n == notifs[i]
              u == n.list[n.idx]
          IN /\ notifs' = [notifs EXCEPT ![i] =
                             [n EXCEPT !.idx = NextIndex(n.idx, Len(n.list), panicked),
                                       !.calls = Append(n.calls, u)]]
             /\ subCfg' = IF panicked THEN subCfg ELSE [subCfg EXCEPT ![u] = n.cfg]
    /\ UNCHANGED <<otherVars, fileVars, mgrVars, reqVars, heap, got>>

\* The callback goroutine: the end of the loop
NotifyDone(i) ==
    /\ i \in DOMAIN notifs
    /\ notifs[i].idx > Len(notifs[i].list)
    /\ notifs' = Remove(notifs, i)
    /\ UNCHANGED <<otherVars, fileVars, mgrVars, subCfg, reqVars, heap, got>>

\* Manager.Close
Close ==
    /\ ~cfgClosed
    /\ cfgClosed' = TRUE
    /\ event' = FALSE
    /\ UNCHANGED <<otherVars, file, writes, config, callbacks, lastModTime, watching,
                   reloader, subVars, reqVars, heap, got>>

\* Manager.pollConfig and Manager.watchConfig: case <-m.stopChan
ReloaderExit(r) ==
    /\ reloader[r].pc = "wait"
    /\ cfgClosed
    /\ reloader' = [reloader EXCEPT ![r].pc = "exited"]
    /\ UNCHANGED <<otherVars, fileVars, config, callbacks, lastModTime, cfgClosed,
                   watching, subVars, reqVars, heap, got>>

\* Handler.handleListBuckets: h.bucketManager.GetAllBuckets()
ListBucketsBegin ==
    /\ listPc = "idle"
    /\ obs' = [buckets |-> BucketsOf(subCfg["registry"]), strategy |-> NoConfig]
    /\ listPc' = "buckets"
    /\ UNCHANGED <<otherVars, fileVars, mgrVars, subVars, heap, got>>

\* Handler.handleListBuckets: h.balancer.GetStrategy() and the response
ListBucketsEnd ==
    /\ listPc = "buckets"
    /\ obs' = [obs EXCEPT !.strategy = StrategyOf(subCfg["balancer"])]
    /\ listPc' = "done"
    /\ UNCHANGED <<otherVars, fileVars, mgrVars, subVars, heap, got>>

\* The client has the response of handleListBuckets
ListBucketsReturn ==
    /\ listPc = "done"
    /\ obs' = [buckets |-> <<>>, strategy |-> NoConfig]
    /\ listPc' = "idle"
    /\ UNCHANGED <<otherVars, fileVars, mgrVars, subVars, heap, got>>

InitConfig ==
    /\ strategy = "round-robin"
    /\ buckets = [n \in {"A"} |-> BucketInfo(1, 0)]
    /\ metricsOn = TRUE
    /\ hashOf = NoHash
    /\ InitStrategyState
    /\ InitCalls
    /\ InitApi
    /\ InitLib
    /\ InitMonitor
    /\ InitManager

NextConfig ==
    \/ FileWrite
    \/ \E u \in Subs : OnConfigChange(u)
    \/ PollTick
    \/ WatchEvent
    \/ \E r \in Reloaders : ReloadLoad(r)
    \/ \E r \in Reloaders : ReloadSwap(r)
    \/ \E i \in 1 .. MaxNotifs : Invoke(i)
    \/ \E i \in 1 .. MaxNotifs : NotifyDone(i)

SpecConfig == InitConfig /\ [][NextConfig]_vars

\* ------------------------------------------------------------------ SpecList
\* The registry and the balancer subscribed, fsnotify not available
InitList ==
    /\ strategy = "round-robin"
    /\ buckets = [n \in {"A"} |-> BucketInfo(1, 0)]
    /\ metricsOn = TRUE
    /\ hashOf = NoHash
    /\ InitStrategyState
    /\ InitCalls
    /\ InitApi
    /\ InitLib
    /\ InitMonitor
    /\ NewManager("c1", FALSE, <<"registry", "balancer">>)

NextList ==
    \/ FileWrite
    \/ PollTick
    \/ ReloadLoad("poller")
    \/ ReloadSwap("poller")
    \/ \E i \in 1 .. MaxNotifs : Invoke(i)
    \/ \E i \in 1 .. MaxNotifs : NotifyDone(i)
    \/ ListBucketsBegin
    \/ ListBucketsEnd
    \/ ListBucketsReturn

SpecList == InitList /\ [][NextList]_vars

\* ------------------------------------------------------------------ SpecPollLive
\* fsnotify not available: the poller alone detects the modifications
InitPoll ==
    /\ strategy = "round-robin"
    /\ buckets = [n \in {"A"} |-> BucketInfo(1, 0)]
    /\ metricsOn = TRUE
    /\ hashOf = NoHash
    /\ InitStrategyState
    /\ InitCalls
    /\ InitApi
    /\ InitLib
    /\ InitMonitor
    /\ \E cbs \in {<<>>, <<"registry">>, <<"registry", "balancer">>} :
          NewManager("c1", FALSE, cbs)

NextPoll ==
    \/ FileWrite
    \/ PollTick
    \/ ReloadLoad("poller")
    \/ ReloadSwap("poller")
    \/ \E i \in 1 .. MaxNotifs : Invoke(i)
    \/ \E i \in 1 .. MaxNotifs : NotifyDone(i)
    \/ Close
    \/ ReloaderExit("poller")

\* The ticker of pollConfig keeps firing while the manager is open, reloadConfig
\* and the callback goroutines run to their end.
FairPoll ==
    /\ WF_vars(PollTick)
    /\ WF_vars(ReloadLoad("poller"))
    /\ WF_vars(ReloadSwap("poller"))
    /\ \A i \in 1 .. MaxNotifs : WF_vars(Invoke(i))
    /\ \A i \in 1 .. MaxNotifs : WF_vars(NotifyDone(i))

SpecPollLive == InitPoll /\ [][NextPoll]_vars /\ FairPoll

\* ------------------------------------------------------------------ SpecGetConfig
Strategies == {"round-robin", "least-space", "weighted", "consistent-hash"}

\* Manager.GetConfig: configCopy := *m.config, a copy of the struct's fields
GetConfig(p) ==
    /\ got[p] = NoConfigValue
    /\ got' = [got EXCEPT ![p] = config]
    /\ UNCHANGED <<otherVars, fileVars, mgrVars, subVars, reqVars, heap>>

\* The caller assigns to a field of the Config it was returned
CallerSetsField(p) ==
    /\ got[p] # NoConfigValue
    /\ \E st \in Strategies \ {got[p].strategy} :
          got' = [got EXCEPT ![p].strategy = st]
    /\ UNCHANGED <<otherVars, fileVars, mgrVars, subVars, reqVars, heap>>

\* The caller assigns to an element of the Buckets slice of the Config it was
\* returned
CallerSetsElement(p) ==
    /\ got[p] # NoConfigValue
    /\ \E i \in DOMAIN heap[got[p].buckets], n \in Names :
          /\ heap[got[p].buckets][i] # n
          /\ heap' = [heap EXCEPT ![got[p].buckets][i] = n]
    /\ UNCHANGED <<otherVars, fileVars, mgrVars, subVars, reqVars, got>>

\* The caller drops the Config it was returned
CallerDrops(p) ==
    /\ got[p] # NoConfigValue
    /\ got' = [got EXCEPT ![p] = NoConfigValue]
    /\ UNCHANGED <<otherVars, fileVars, mgrVars, subVars, reqVars, heap>>

InitGetConfig ==
    /\ strategy = "round-robin"
    /\ buckets = [n \in {"A"} |-> BucketInfo(1, 0)]
    /\ metricsOn = TRUE
    /\ hashOf = NoHash
    /\ InitStrategyState
    /\ InitCalls
    /\ InitApi
    /\ InitLib
    /\ InitMonitor
    /\ \E c \in Configs : NewManager(c, TRUE, <<>>)

NextGetConfig ==
    \/ \E p \in Procs : GetConfig(p)
    \/ \E p \in Procs : CallerSetsField(p)
    \/ \E p \in Procs : CallerSetsElement(p)
    \/ \E p \in Procs : CallerDrops(p)

SpecGetConfig == InitGetConfig /\ [][NextGetConfig]_vars

\* ------------------------------------------------------------------ SpecPlace
envVars == <<confVars, cfgVars, monVars, rrVars, hashVars, limitVars>>

\* The keys and sizes of the REST requests
PlaceKeys == {"k1"}
PlaceSizes == {1}

\* Another request has changed the record of the key of h
Overwritten(h, key) ==
    IF h.key = key
    THEN [h EXCEPT !.after = FALSE,
                   !.recorded = IF @ = "stored" THEN "overwritten" ELSE @]
    ELSE h

\* Another request has deleted the record of the key of h
Dropped(h, key) ==
    IF h.key = key /\ h.recorded = "stored" THEN [h EXCEPT !.recorded = "overwritten"] ELSE h

\* What `latest` says of a key a request names
LatestOf(key) == IF key \in Keys THEN latest[key] ELSE NoBucket

\* Handler.handlePresignUpload and Handler.handlePresignMultipart: the body is
\* decoded and checked
HandlePresignBegin(p) ==
    /\ handler[p].pc = "idle"
    /\ requests < MaxRequests
    /\ requests' = requests + 1
    /\ \E op \in {"upload", "multipart"}, key \in PlaceKeys \cup {EmptyKey},
          size \in PlaceSizes, parts \in {0, 1} :
          /\ op = "upload" => parts = 1
          /\ LET h == [NoHandler EXCEPT !.op = op, !.key = key, !.size = size]
             IN handler' = [handler EXCEPT ![p] =
                              IF key = EmptyKey \/ parts <= 0
                              THEN Respond(h, StatusBadRequest, "InvalidArgument")
                              ELSE [h EXCEPT !.pc = "select"]]
    /\ UNCHANGED <<envVars, callVars, buckets, store, latest, stats>>

\* h.balancer.SelectBucket(req.Key, req.Size) of the two handlers
HandlePresignSelect(p) ==
    /\ handler[p].pc = "select"
    /\ SelectBucketBegin(p, {handler[p].key}, {handler[p].size})

\* The two handlers from the return of SelectBucket to the return of the presigner
HandlePresignSelected(p) ==
    /\ handler[p].pc = "select"
    /\ pc[p] = "done"
    /\ IF ret[p].err # "ok"
       THEN handler' = [handler EXCEPT ![p] =
                          Respond(@, StatusServiceUnavailable, ret[p].err)]
       ELSE \E ok \in BOOLEAN :
               handler' = [handler EXCEPT ![p] =
                             IF ok
                             THEN [@ EXCEPT !.pc = "record", !.bucket = ret[p].bucket]
                             ELSE Respond(@, StatusInternalServerError, "BackendFailure")]
    /\ pc' = [pc EXCEPT ![p] = "idle"]
    /\ req' = [req EXCEPT ![p] = NoRequest]
    /\ snap' = [snap EXCEPT ![p] = <<>>]
    /\ elig' = [elig EXCEPT ![p] = <<>>]
    /\ ret' = [ret EXCEPT ![p] = NoResult]
    /\ UNCHANGED <<envVars, buckets, store, requests, latest, stats>>

\* h.storage.RecordObject of the two handlers; its error is logged
HandlePresignRecord(p) ==
    /\ handler[p].pc = "record"
    /\ \E ok \in BOOLEAN :
          LET h == handler[p]
          IN /\ store' = IF ok
                         THEN RecordObject(store, h.key, RecordedName(h.bucket), h.size)
                         ELSE store
             /\ latest' = IF ok THEN [latest EXCEPT ![h.key] = h.bucket] ELSE latest
             /\ handler' = [q \in Procs |->
                              IF q = p
                              THEN [h EXCEPT !.pc = "reserve",
                                             !.recorded = IF ok THEN "stored" ELSE "failed"]
                              ELSE IF ok THEN Overwritten(handler[q], h.key)
                                   ELSE handler[q]]
    /\ UNCHANGED <<envVars, callVars, buckets, requests, stats>>

\* bucket.UpdateUsedSize(req.Size) and sendJSON of the two handlers
HandlePresignReserve(p) ==
    /\ handler[p].pc = "reserve"
    /\ buckets' = UpdateUsedSize(buckets, handler[p].bucket, ReservedDelta(handler[p].size))
    /\ handler' = [handler EXCEPT ![p] =
                      Respond([@ EXCEPT !.answer = handler[p].bucket,
                                        !.delta = @ + Added(buckets, handler[p].bucket,
                                                            ReservedDelta(handler[p].size))],
                              StatusOK, "ok")]
    /\ stats' = IF stats.id = handler[p].bucket THEN NoStats ELSE stats
    /\ UNCHANGED <<envVars, callVars, store, requests, latest>>

\* Handler.handlePresignDownload and Handler.handlePresignDelete up to the return
\* of FindObjectBucket
HandleLookupBegin(p) ==
    /\ handler[p].pc = "idle"
    /\ requests < MaxRequests
    /\ requests' = requests + 1
    /\ \E op \in {"download", "presign-delete"}, key \in PlaceKeys \cup {EmptyKey} :
          LET h == [NoHandler EXCEPT !.op = op, !.key = key,
                                     !.after = (LatestOf(key) = Deleted),
                                     !.expect = LatestOf(key)]
          IN handler' = [handler EXCEPT ![p] =
                IF key = EmptyKey
                THEN Respond(h, StatusBadRequest, "InvalidArgument")
                ELSE IF ObjectMissing(GetObjectInfo(store, key))
                     THEN Respond(h, StatusNotFound, "NotFound")
                     ELSE [h EXCEPT !.pc = "getbucket",
                                    !.bucket = FindObjectBucket(store, key)]]
    /\ UNCHANGED <<envVars, callVars, buckets, store, latest, stats>>

\* The two handlers from h.bucketManager.GetBucket to the return of the presigner
HandleLookupGetBucket(p) ==
    /\ handler[p].pc = "getbucket"
    /\ IF BucketMissing(buckets, handler[p].bucket)
       THEN handler' = [handler EXCEPT ![p] = Respond(@, StatusNotFound, "NotFound")]
       ELSE \E ok \in BOOLEAN :
               handler' = [handler EXCEPT ![p] =
                             IF ok
                             THEN Respond([@ EXCEPT !.answer = handler[p].bucket],
                                          StatusOK, "ok")
                             ELSE Respond(@, StatusInternalServerError, "BackendFailure")]
    /\ UNCHANGED <<envVars, callVars, buckets, store, requests, latest, stats>>

\* Handler.handleGetObjectInfo
HandleGetObjectInfo(p) ==
    /\ handler[p].pc = "idle"
    /\ requests < MaxRequests
    /\ requests' = requests + 1
    /\ \E key \in PlaceKeys :
          LET h == [NoHandler EXCEPT !.op = "info", !.key = key,
                                     !.after = (LatestOf(key) = Deleted),
                                     !.expect = LatestOf(key)]
              info == GetObjectInfo(store, key)
          IN handler' = [handler EXCEPT ![p] =
                IF ObjectMissing(info)
                THEN Respond(h, StatusNotFound, "NotFound")
                ELSE Respond([h EXCEPT !.bucket = info.bucket, !.size = info.size,
                                       !.answer = info.bucket], StatusOK, "ok")]
    /\ UNCHANGED <<envVars, callVars, buckets, store, latest, stats>>

\* Handler.handleDeleteObject up to the return of GetObjectInfo
HandleDeleteBegin(p) ==
    /\ handler[p].pc = "idle"
    /\ requests < MaxRequests
    /\ requests' = requests + 1
    /\ \E key \in PlaceKeys :
          LET h == [NoHandler EXCEPT !.op = "delete", !.key = key,
                                     !.after = (LatestOf(key) = Deleted),
                                     !.expect = LatestOf(key)]
              info == GetObjectInfo(store, key)
          IN handler' = [handler EXCEPT ![p] =
                IF ObjectMissing(info)
                THEN Respond(h, StatusNotFound, "NotFound")
                ELSE [h EXCEPT !.pc = "release", !.bucket = info.bucket,
                               !.size = info.size]]
    /\ UNCHANGED <<envVars, callVars, buckets, store, latest, stats>>

\* Handler.handleDeleteObject: GetBucket and bucket.UpdateUsedSize(-info.Size)
HandleDeleteRelease(p) ==
    /\ handler[p].pc = "release"
    /\ buckets' = UpdateUsedSize(buckets, handler[p].bucket, 0 - handler[p].size)
    /\ handler' = [handler EXCEPT ![p].pc = "delete",
                                  ![p].delta = @ + Added(buckets, handler[p].bucket,
                                                         0 - handler[p].size)]
    /\ stats' = IF stats.id = handler[p].bucket THEN NoStats ELSE stats
    /\ UNCHANGED <<envVars, callVars, store, requests, latest>>

\* Handler.handleDeleteObject: h.storage.DeleteObject and the response
HandleDeleteStore(p) ==
    /\ handler[p].pc = "delete"
    /\ \E ok \in BOOLEAN :
          LET h == handler[p]
          IN /\ store' = IF ok THEN DeleteObject(store, h.key) ELSE store
             /\ latest' = IF ok THEN [latest EXCEPT ![h.key] = Deleted] ELSE latest
             /\ handler' = [q \in Procs |->
                              IF q = p
                              THEN IF ok
                                   THEN Respond(h, StatusOK, "ok")
                                   ELSE Respond(h, StatusInternalServerError, "Internal")
                              ELSE IF ok THEN Dropped(handler[q], h.key)
                                   ELSE handler[q]]
    /\ UNCHANGED <<envVars, callVars, buckets, requests, stats>>

\* The client has the response
HandlerReturn(p) ==
    /\ handler[p].pc = "done"
    /\ handler' = [handler EXCEPT ![p] = NoHandler]
    /\ UNCHANGED <<envVars, callVars, buckets, store, requests, latest, stats>>

\* A reload drops a bucket from the registry, no SelectBucket being under way
RemoveBucket(n) ==
    /\ n \in DOMAIN buckets
    /\ Cardinality(DOMAIN buckets) > 1
    /\ \A p \in Procs : pc[p] = "idle"
    /\ buckets' = [m \in DOMAIN buckets \ {n} |-> buckets[m]]
    /\ UNCHANGED <<envVars, callVars, placeVars>>

InitPlace ==
    /\ strategy \in {"round-robin", "least-space"}
    /\ buckets = [n \in {"A", "B"} |-> BucketInfo(1, 0)]
    /\ metricsOn = TRUE
    /\ hashOf = NoHash
    /\ InitStrategyState
    /\ InitCalls
    /\ InitApi
    /\ InitLib
    /\ InitManager
    /\ InitMonitor

NextPlace ==
    \/ \E p \in Procs : HandlePresignBegin(p)
    \/ \E p \in Procs : HandlePresignSelect(p)
    \/ \E p \in Procs : SelectBucketFilter(p)
    \/ \E p \in Procs : RoundRobinSelect(p)
    \/ \E p \in Procs : LeastSpaceSelect(p)
    \/ \E p \in Procs : HandlePresignSelected(p)
    \/ \E p \in Procs : HandlePresignRecord(p)
    \/ \E p \in Procs : HandlePresignReserve(p)
    \/ \E p \in Procs : HandleLookupBegin(p)
    \/ \E p \in Procs : HandleLookupGetBucket(p)
    \/ \E p \in Procs : HandleGetObjectInfo(p)
    \/ \E p \in Procs : HandleDeleteBegin(p)
    \/ \E p \in Procs : HandleDeleteRelease(p)
    \/ \E p \in Procs : HandleDeleteStore(p)
    \/ \E p \in Procs : HandlerReturn(p)
    \/ RemoveBucket("B")

SpecPlace == InitPlace /\ [][NextPlace]_vars

\* ------------------------------------------------------------------ SpecLimit
\* S3Handler.recordBackendOperation on a bucket of the registry
RecordBackendOperation(n, category) ==
    /\ n \in DOMAIN buckets
    /\ operations[n][category] < Ceiling
    /\ LET ops == Increment(operations, n, category)
           disabled == LimitReached(ops, n, category)
       IN /\ operations' = ops
          /\ buckets' = IF disabled THEN [buckets EXCEPT ![n].enabled = FALSE] ELSE buckets
          /\ limited' = IF disabled THEN limited \cup {n} ELSE limited
    /\ UNCHANGED <<placeVars, seen, confVars, cfgVars, monVars, callVars, rrVars, hashVars>>

\* The explicit reset of a bucket's counters, by hand or by a config reload
ResetOperations(n) ==
    /\ n \in DOMAIN buckets
    /\ \E c \in Categories : operations[n][c] > 0
    /\ operations' = [operations EXCEPT ![n] = [c \in Categories |-> 0]]
    /\ buckets' = [buckets EXCEPT ![n].enabled = TRUE]
    /\ limited' = limited \ {n}
    /\ seen' = [p \in Procs |-> seen[p] \ {n}]
    /\ UNCHANGED <<placeVars, confVars, cfgVars, monVars, callVars, rrVars, hashVars>>

\* hash("A-i") = 1, hash("B-i") = 0, every other string hashed to 0
LimitHash == [k \in Hashed |-> IF k \in {VirtualKey("A", i) : i \in 0 .. (Replicas - 1)}
                               THEN 1 ELSE 0]

InitLimit ==
    /\ strategy \in {"least-space", "consistent-hash"}
    /\ buckets = [n \in {"A", "B"} |-> BucketInfo(1, 0)]
    /\ metricsOn = TRUE
    /\ hashOf = LimitHash
    /\ InitStrategyState
    /\ InitCalls
    /\ InitApi
    /\ InitLib
    /\ InitManager
    /\ InitMonitor

NextLimit ==
    \/ \E p \in Procs : SelectBucketBegin(p, {"k1"}, {0})
    \/ \E p \in Procs : SelectBucketFilter(p)
    \/ \E p \in Procs : LeastSpaceSelect(p)
    \/ \E p \in Procs : ConsistentHashUpdate(p)
    \/ \E p \in Procs : ConsistentHashLookup(p)
    \/ \E p \in Procs : Return(p)
    \/ \E c \in Categories : RecordBackendOperation("B", c)
    \/ ResetOperations("B")
    \/ ReportHealth

SpecLimit == InitLimit /\ [][NextLimit]_vars

\* ------------------------------------------------------------------ SpecStats
\* MetricsReporter.ReportStats called with the Stats of a probe
ReportStatsCall ==
    /\ \E id \in Names, used \in 0 .. MaxCap :
          /\ buckets' = ReportStatsEffect(buckets, metricsOn, id, used)
          /\ stats' = [id |-> id, used |-> used]
    /\ UNCHANGED <<envVars, callVars, store, handler, requests, latest>>

\* The reporter built with or without metrics
InitStats ==
    /\ strategy = "least-space"
    /\ buckets = [n \in {"A", "B"} |-> BucketInfo(1, 0)]
    /\ metricsOn \in BOOLEAN
    /\ hashOf = NoHash
    /\ InitStrategyState
    /\ InitCalls
    /\ InitApi
    /\ InitLib
    /\ InitManager
    /\ InitMonitor

NextStats ==
    \/ ReportStatsCall
    \/ HandlePresignBegin("p1")
    \/ HandlePresignSelect("p1")
    \/ SelectBucketFilter("p1")
    \/ LeastSpaceSelect("p1")
    \/ HandlePresignSelected("p1")
    \/ HandlePresignRecord("p1")
    \/ HandlePresignReserve("p1")
    \/ HandleDeleteBegin("p1")
    \/ HandleDeleteRelease("p1")
    \/ HandleDeleteStore("p1")
    \/ HandlerReturn("p1")

SpecStats == InitStats /\ [][NextStats]_vars

\* ------------------------------------------------------------------ SpecMultipart
appVars == <<apiVars, strategy, metricsOn, reporter, cfgVars, monVars, buckets, callVars,
             rrVars, hashVars>>

\* Presigner.GenerateMultipartUploadURLs up to the loop: CreateMultipartUpload,
\* which fails or answers an UploadId
GenerateMultipartUploadURLs ==
    /\ mp.pc = "idle"
    /\ \E name \in DOMAIN buckets, key \in Keys, partCount \in 0 .. MaxParts,
          ok \in BOOLEAN, upload \in UploadIds :
          mp' = IF ok
                THEN [NoCall EXCEPT !.pc = "loop", !.bucket = name, !.key = key,
                                    !.partCount = partCount, !.upload = upload, !.i = 1]
                ELSE [NoCall EXCEPT !.pc = "done", !.bucket = name, !.key = key,
                                    !.partCount = partCount, !.err = "create"]
    /\ UNCHANGED <<appVars, auth>>

\* One round of the loop: PresignUploadPart, which fails or answers a URL; on a
\* failure AbortMultipartUpload and the return of the error
PresignUploadPart ==
    /\ mp.pc = "loop"
    /\ ~LoopDone(mp.i, mp.partCount)
    /\ \E ok \in BOOLEAN :
          mp' = IF ok
                THEN [mp EXCEPT !.partURLs = PutPart(@, mp.i,
                                                PartURL(mp.bucket, mp.key, mp.upload, mp.i)),
                                !.i = @ + 1]
                ELSE [mp EXCEPT !.pc = "done", !.aborted = @ \cup {mp.upload},
                                !.result = Nil, !.err = "part"]
    /\ UNCHANGED <<appVars, auth>>

\* The return after the loop
GenerateReturn ==
    /\ mp.pc = "loop"
    /\ LoopDone(mp.i, mp.partCount)
    /\ mp' = [mp EXCEPT !.pc = "done",
                        !.result = MultipartUploadURLs(mp.upload, mp.partURLs,
                                                       mp.bucket, mp.key)]
    /\ UNCHANGED <<appVars, auth>>

\* The caller has the result
GenerateTaken ==
    /\ mp.pc = "done"
    /\ mp' = NoCall
    /\ UNCHANGED <<appVars, auth>>

InitMultipart ==
    /\ strategy = "round-robin"
    /\ buckets = [n \in {"A", "B"} |-> BucketInfo(1, 0)]
    /\ metricsOn = TRUE
    /\ hashOf = NoHash
    /\ InitStrategyState
    /\ InitCalls
    /\ InitApi
    /\ InitMonitor
    /\ InitManager
    /\ mp = NoCall
    /\ auth = NoAuth("nil", NoCredentials)

NextMultipart ==
    \/ GenerateMultipartUploadURLs
    \/ PresignUploadPart
    \/ GenerateReturn
    \/ GenerateTaken

SpecMultipart == InitMultipart /\ [][NextMultipart]_vars

\* ------------------------------------------------------------------ SpecAuth
\* The Authorization headers of the requests: none, or a scheme followed by a payload
Schemes == {BasicPrefix, <<"Basic">>, <<"Bearer", " ">>}
Headers ==
    {NoHeader} \cup {scheme \o payload : scheme \in Schemes,
                                         payload \in Strings(Alphabet \cup {Illegal}, MaxText)}

\* The handler BasicAuth(cfg)(next) serving one request: the code of the error it
\* answers with, "none" when it calls next.ServeHTTP
ErrorCode(required, credentials, header) ==
    LET decoded == DecodeString(TrimPrefix(header, BasicPrefix))
        parts == SplitN2(decoded.decoded, ":")
        cred == CredentialsOf(credentials)
    IN IF ~RequiredOf(required) THEN "none"
       ELSE IF ~HasPrefix(header, BasicPrefix) THEN "AccessDenied"
       ELSE IF decoded.err THEN "AccessDenied"
       ELSE IF Len(parts) # 2 THEN "AccessDenied"
       ELSE IF AccessMismatch(parts[1], cred.access) THEN "InvalidAccessKeyId"
       ELSE IF SecretMismatch(parts[2], cred.secret) THEN "SignatureDoesNotMatch"
       ELSE "none"

\* A request passes through the middleware
BasicAuth ==
    /\ auth.pc = "idle"
    /\ \E header \in Headers :
          LET code == ErrorCode(auth.required, auth.credentials, header)
          IN auth' = [auth EXCEPT !.pc = "done", !.header = header,
                                  !.invoked = (code = "none"), !.code = code]
    /\ UNCHANGED <<appVars, mp>>

\* The response is written
BasicAuthReturn ==
    /\ auth.pc = "done"
    /\ auth' = NoAuth(auth.required, auth.credentials)
    /\ UNCHANGED <<appVars, mp>>

InitAuth ==
    /\ strategy = "round-robin"
    /\ buckets = [n \in {"A", "B"} |-> BucketInfo(1, 0)]
    /\ metricsOn = TRUE
    /\ hashOf = NoHash
    /\ InitStrategyState
    /\ InitCalls
    /\ InitApi
    /\ InitMonitor
    /\ InitManager
    /\ mp = NoCall
    /\ \E r \in RequiredValues, c \in CredentialValues : auth = NoAuth(r, c)

NextAuth ==
    \/ BasicAuth
    \/ BasicAuthReturn

SpecAuth == InitAuth /\ [][NextAuth]_vars

\* ------------------------------------------------------------------ SpecNotify
\* The registry and the balancer subscribed; the callback goroutines of reloads
\* that follow each other run side by side
InitNotify ==
    /\ strategy = "round-robin"
    /\ buckets = [n \in {"A"} |-> BucketInfo(1, 0)]
    /\ metricsOn = TRUE
    /\ hashOf = NoHash
    /\ InitStrategyState
    /\ InitCalls
    /\ InitApi
    /\ InitLib
    /\ InitMonitor
    /\ NewManager("c1", TRUE, <<"registry", "balancer">>)

NextNotify ==
    \/ FileWrite
    \/ PollTick
    \/ WatchEvent
    \/ \E r \in Reloaders : ReloadLoad(r)
    \/ \E r \in Reloaders : ReloadSwapCapped(r, MaxOverlap)
    \/ \E i \in 1 .. MaxOverlap : Invoke(i)
    \/ \E i \in 1 .. MaxOverlap : NotifyDone(i)

SpecNotify == InitNotify /\ [][NextNotify]_vars

\* ------------------------------------------------------------------ claims
\* No two buckets of the registry have virtual keys of the same hash.
NoCollision ==
    \A a, b \in DOMAIN buckets : \A i, j \in 0 .. (Replicas - 1) :
        a # b => Hash(VirtualKey(a, i)) # Hash(VirtualKey(b, j))

\* C1. Balancer.SelectBucket never returns a bucket that its own filter dropped for
\* lack of space: a returned bucket that was in the request's available slice is in
\* its filtered slice too (stated for rings without colliding buckets).
C1_ReturnedBucketPassedFilter ==
    \A p \in Procs :
        (pc[p] = "done" /\ ret[p].err = "ok" /\ NoCollision)
            => ret[p].bucket \notin (SeqToSet(snap[p]) \ SeqToSet(elig[p]))

\* C2. Consistent hash: a lookup of a key over the same set of buckets as the
\* key's previous lookup returns the same bucket, whatever the order of the slice.
C2_SameKeySameBucket ==
    [][\A p \in Procs :
          (pc[p] = "lookup" /\ pc'[p] = "done"
           /\ placed[req[p].key].set = SeqToSet(elig[p]))
              => ret'[p].bucket = placed[req[p].key].bucket]_vars

\* C3. Round-robin: within a run of consecutive calls made with the same slice of
\* n buckets, no bucket is selected twice among n consecutive calls, so n
\* consecutive calls select each of the n buckets exactly once.
C3_RoundRobinCycle ==
    /\ \A i, j \in DOMAIN rrWin : i # j => rrWin[i] # rrWin[j]
    /\ Len(rrWin) = Len(rrList) => SeqToSet(rrWin) = SeqToSet(rrList)

C3_Witness ==
    /\ Len(rrList) = 3
    /\ Len(rrWin) = 3
    /\ counter = MaxCounter

FreeSpaceOf(n) == GetAvailableSpace(buckets[n])

\* The first bucket of the slice whose free space is the largest of the slice.
FirstLargest(list) ==
    LET best == CHOOSE i \in DOMAIN list :
                   /\ \A j \in DOMAIN list : FreeSpaceOf(list[j]) <= FreeSpaceOf(list[i])
                   /\ \A j \in DOMAIN list :
                         FreeSpaceOf(list[j]) = FreeSpaceOf(list[i]) => i <= j
    IN list[best]

\* C4. Least-space returns the bucket of the largest free space, and of several
\* such buckets the first of the slice it was handed.
C4_LeastSpaceFirstOfLargest ==
    \A p \in Procs :
        (pc[p] = "done" /\ strategy = "least-space" /\ ret[p].err = "ok")
            => ret[p].bucket = FirstLargest(elig[p])

RECURSIVE PrefixWeight(_, _)
PrefixWeight(list, i) ==
    IF i = 0 THEN 0 ELSE buckets[list[i]].weight + PrefixWeight(list, i - 1)

IndexOf(list, n) == CHOOSE i \in DOMAIN list : list[i] = n

\* C5. Weighted, total weight W > 0: the draw r selects the first bucket whose
\* cumulative weight exceeds r, so exactly w_i of the W draws select bucket i and
\* no draw selects a bucket of weight 0.
C5_WeightedDraw ==
    \A p \in Procs :
        LET list == elig[p]
            total == PrefixWeight(list, Len(list))
        IN (strategy = "weighted" /\ Len(list) > 0 /\ total > 0) =>
              /\ pc[p] = "strategy" =>
                    \A i \in DOMAIN list :
                        Cardinality({r \in 0 .. (total - 1) :
                                        WeightedWalk(buckets, list, r) = list[i]})
                            = buckets[list[i]].weight
              /\ pc[p] = "done" =>
                    /\ ret[p].err = "ok"
                    /\ ret[p].bucket \in SeqToSet(list)
                    /\ LET i == IndexOf(list, ret[p].bucket)
                       IN /\ PrefixWeight(list, i - 1) <= ret[p].size
                          /\ ret[p].size < PrefixWeight(list, i)
                          /\ buckets[list[i]].weight > 0

C5_Witness ==
    \E p \in Procs :
        /\ pc[p] = "done"
        /\ strategy = "weighted"
        /\ Len(elig[p]) = 3
        /\ buckets[elig[p][1]].weight = 0
        /\ buckets[elig[p][2]].weight = 0
        /\ ret[p].bucket = elig[p][3]
        /\ ret[p].size = MaxWeight - 1

\* C6. Weighted, every weight 0: the call returns a bucket of the slice, never an
\* error, and each bucket of the slice is one it can return.
C6_AllWeightsZero ==
    \A p \in Procs :
        LET list == elig[p]
        IN (strategy = "weighted" /\ Len(list) > 0 /\ PrefixWeight(list, Len(list)) = 0) =>
              /\ pc[p] = "strategy" => ZeroWeightOutcomes(list) = SeqToSet(list)
              /\ pc[p] = "done" => (ret[p].err = "ok" /\ ret[p].bucket \in SeqToSet(list))

C6_Witness ==
    \E p \in Procs :
        /\ pc[p] = "done"
        /\ strategy = "weighted"
        /\ Len(elig[p]) = 3
        /\ \A n \in Names : buckets[n].weight = 0
        /\ ret[p].bucket = elig[p][3]

\* C7. A call made while the registry has no enabled and available bucket ends at
\* once with NoAvailableBackend and no bucket, and leaves the strategies' state
\* (the round-robin counter, the hash ring) as it was.
C7_NoAvailableBackend ==
    [][\A p \in Procs :
          (pc[p] = "idle" /\ pc'[p] # "idle"
           /\ \A n \in DOMAIN buckets : ~(buckets[n].enabled /\ buckets[n].available))
              => /\ pc'[p] = "done"
                 /\ ret'[p].err = "NoAvailableBackend"
                 /\ ret'[p].bucket = NoBucket
                 /\ counter' = counter
                 /\ ring' = ring
                 /\ nodes' = nodes]_vars

C7_Witness ==
    \E p \in Procs :
        /\ pc[p] = "done"
        /\ ret[p].err = "NoAvailableBackend"
        /\ DOMAIN buckets # {}
        /\ counter > 0

\* C8. The filter step of a call fails with InsufficientCapacity, carrying the
\* requested size and no bucket, exactly when every bucket of the call's available
\* slice has less free space than the requested size.
C8_InsufficientCapacity ==
    [][\A p \in Procs :
          (pc[p] = "filter" /\ pc'[p] # "filter")
              => ((\A i \in DOMAIN snap[p] :
                      GetAvailableSpace(buckets[snap[p][i]]) < req[p].size)
                  <=> (/\ pc'[p] = "done"
                       /\ ret'[p].err = "InsufficientCapacity"
                       /\ ret'[p].size = req[p].size
                       /\ ret'[p].bucket = NoBucket))]_vars

C8_Witness ==
    \E p \in Procs :
        /\ pc[p] = "done"
        /\ ret[p].err = "InsufficientCapacity"
        /\ ret[p].size = MaxCap
        /\ Len(snap[p]) = 2

RingBuiltFrom(list) ==
    /\ \A i, j \in DOMAIN nodes : i < j => nodes[i] <= nodes[j]
    /\ Len(nodes) = Replicas * Len(list)
    /\ \A b \in SeqToSet(list) :
          Cardinality({i \in DOMAIN nodes : ring[nodes[i]] = b}) = Replicas

\* C9. After updateRing the nodes are sorted and every bucket of the slice owns
\* exactly `replicas` of the ring's points.
C9_RingAfterRebuild ==
    \A p \in Procs : pc[p] = "lookup" => RingBuiltFrom(elig[p])

\* C10. Once a checkAll has completed, a registered bucket whose latest probe
\* failed is not among the registry's available buckets, the reporter being set,
\* whether or not it exports metrics.
C10_FailedProbeExcludes ==
    \A n \in DOMAIN buckets :
        (monitor \in {"waiting", "exited"} /\ NoProbe /\ reporter
         /\ n \in targets /\ statuses[n] = "unhealthy")
            => n \notin SeqToSet(GetAvailableBuckets(buckets))

\* C11. Once Stop has been called or the context cancelled, a probe still in
\* flight stores no status in the monitor's status map and reports nothing to the
\* registry.
C11_StoppedProbeDiscarded ==
    [][\A t \in Names :
          /\ ((stopChan \/ ctxDone) /\ probe[t] = "spawned" /\ probe'[t] # "spawned")
                => statuses' = statuses
          /\ ((stopChan \/ ctxDone) /\ probe[t] \in {"healthy", "unhealthy"}
              /\ probe'[t] = "none")
                => buckets' = buckets]_vars

\* C12. After Stop or the cancellation of the context the run loop of a started
\* monitor terminates, and once it has terminated no checkAll begins.
C12_RunLoopTerminates ==
    /\ ((stopChan \/ ctxDone) /\ monitor # "new") ~> (monitor = "exited")
    /\ [][monitor = "exited" => (monitor' = "exited" /\ probe' = probe)]_vars

C12_Witness ==
    /\ monitor = "exited"
    /\ ctxDone
    /\ ~stopChan
    /\ tickSnap = {"A"}
    /\ probeCount["A"] = 1

\* C13. Start fans a probe out to every target registered at that moment, returns
\* (and the run loop begins) only when each of them has been probed once and its
\* status stored, and a periodic check begins only from the run loop.
C13_StartChecksFirst ==
    [][/\ (monitor = "new" /\ monitor' # "new")
            => (monitor' = "startCheck" /\ \A t \in targets : probe'[t] = "spawned")
       /\ (monitor = "startCheck" /\ monitor' # "startCheck")
            => /\ monitor' = "waiting"
               /\ \A t \in tickSnap : probeCount[t] = 1 /\ probe[t] = "none"
       /\ (monitor # "tickCheck" /\ monitor' = "tickCheck")
            => (monitor = "waiting" /\ startDone)]_vars

C13_Witness ==
    /\ monitor = "tickCheck"
    /\ tickSnap = {"A", "B"}
    /\ probe["A"] = "spawned"
    /\ probe["B"] = "spawned"
    /\ statuses["A"] = "unhealthy"
    /\ statuses["B"] = "healthy"

\* C14. Whenever no checkAll is running, the monitor holds a status only for
\* registered targets: the result of a probe of a target unregistered meanwhile is
\* dropped.
C14_StatusesOfRegisteredOnly ==
    (monitor \in {"waiting", "exited"} /\ \A n \in Names : probe[n] = "none")
        => \A n \in Names : statuses[n] # "none" => n \in targets

\* C15. A checkAll stores at most one status per target and only for targets of its
\* snapshot, it has returned only when every target of the snapshot has its status
\* stored and reported, and the next tick probes every registered target again.
C15_OneProbePerTargetPerTick ==
    /\ [](/\ \A t \in Names : probeCount[t] <= 1 /\ (probeCount[t] = 1 => t \in tickSnap)
          /\ monitor \in {"waiting", "exited"}
                => \A t \in tickSnap : probeCount[t] = 1 /\ probe[t] = "none")
    /\ [][(monitor = "waiting" /\ monitor' = "tickCheck")
             => \A t \in targets : probe'[t] = "spawned" /\ probeCount'[t] = 0]_vars

C15_Witness ==
    /\ monitor = "tickCheck"
    /\ tickSnap = {"A", "B"}
    /\ \A t \in {"A", "B"} : probeCount[t] = 1 /\ probe[t] = "none"
    /\ statuses["A"] = "unhealthy"

\* C16. A reload whose Load fails ends without a swap and without a callback
\* goroutine: the live config, which is always a loaded valid one, the running
\* callbacks and what the subscribers hold stay as they were.
C16_FailedReloadKeepsSnapshot ==
    /\ [](config.id \in Configs)
    /\ [][\A r \in Reloaders :
             (reloader[r].pc = "load" /\ reloader'[r].pc # "load"
              /\ file.content = Invalid)
                => /\ reloader'[r] = Idle
                   /\ config' = config
                   /\ notifs' = notifs
                   /\ subCfg' = subCfg]_vars

C16_Witness ==
    /\ file.content = Invalid
    /\ lastModTime = file.mtime
    /\ \A r \in Reloaders : reloader[r] = Idle
    /\ config = Load("c1")
    /\ callbacks = <<"registry", "balancer">>
    /\ notifs = <<>>

\* C17. The swap of a successful reload starts one callback goroutine holding the
\* new config and the subscribers registered at the swap; the goroutine ends only
\* when it has invoked each of them once, in registration order, whether or not
\* they panicked; an invocation hands over the goroutine's config and leaves the
\* live config as it is.
C17_SubscribersNotified ==
    [][/\ \A r \in Reloaders :
             (reloader[r].pc = "swap" /\ reloader'[r].pc # "swap")
                => /\ config' = Load(reloader[r].loaded)
                   /\ notifs' = Append(notifs, [cfg |-> reloader[r].loaded,
                                                list |-> callbacks,
                                                idx |-> 1, calls |-> <<>>])
       /\ Len(notifs') < Len(notifs)
             => \E i \in DOMAIN notifs :
                   /\ notifs' = Remove(notifs, i)
                   /\ notifs[i].calls = notifs[i].list
       /\ \A i \in DOMAIN notifs :
             (Len(notifs') = Len(notifs) /\ notifs'[i].calls # notifs[i].calls)
                => /\ config' = config
                   /\ notifs'[i].calls =
                         SubSeq(notifs[i].list, 1, Len(notifs[i].calls) + 1)
                   /\ \A u \in Subs : subCfg'[u] \in {subCfg[u], notifs[i].cfg}]_vars

C17_Witness ==
    /\ config = Load("c2")
    /\ Len(notifs) = 1
    /\ notifs[1].cfg = "c2"
    /\ notifs[1].list = <<"registry", "balancer">>
    /\ notifs[1].calls = <<"registry", "balancer">>
    /\ subCfg["registry"] = "c1"
    /\ subCfg["balancer"] = "c2"

\* C18. Whatever the callers of GetConfig do to the Configs they were returned,
\* the live config keeps the strategy and the bucket list it was loaded with.
C18_GetConfigDefensiveCopy ==
    /\ config.strategy = StrategyOf(config.id)
    /\ heap[config.buckets] = BucketsOf(config.id)

\* C19. The bucket list and the strategy name of one response of
\* handleListBuckets belong to one snapshot.
C19_ListBucketsOneSnapshot ==
    listPc = "done"
        => \E c \in Configs : obs.buckets = BucketsOf(c) /\ obs.strategy = StrategyOf(c)

\* C20. While the manager is open, a valid content written to the config file with
\* a modification time other than the last-known one becomes the live config,
\* unless the file is written again (stated for files that can still be written).
C20_PollerPublishesModification ==
    \A c \in Configs, t \in 0 .. MaxMtime :
        (file = [content |-> c, mtime |-> t] /\ t # lastModTime /\ ~cfgClosed
         /\ writes < MaxWrites)
            ~> (config.id = c \/ cfgClosed \/ file # [content |-> c, mtime |-> t])

\* The requests that look a key up
Lookups == {"download", "presign-delete", "info"}

\* C21. When an upload or multipart presign request is answered with 200 for a key,
\* the store holds a record of that key and the record names the bucket the request
\* selected (no other request having changed the record since this one stored it).
C21_OneRecordPerPlacement ==
    \A p \in Procs :
        (/\ handler[p].pc = "done"
         /\ handler[p].op \in {"upload", "multipart"}
         /\ handler[p].status = StatusOK
         /\ handler[p].recorded # "overwritten")
        => /\ store[handler[p].key] # NoRecord
           /\ store[handler[p].key].bucket = handler[p].answer

\* C22. A download, delete-presign or object-info request for a key that has been
\* placed and not deleted since resolves to the bucket of the key's latest
\* placement: it is the bucket of a 200 answer, and a 404 answer means that bucket
\* has left the registry.
C22_LookupFindsLatestPlacement ==
    \A p \in Procs :
        (/\ handler[p].pc = "done"
         /\ handler[p].op \in Lookups
         /\ handler[p].expect \in Names)
        => /\ handler[p].bucket = handler[p].expect
           /\ handler[p].status = StatusOK => handler[p].answer = handler[p].expect
           /\ handler[p].status = StatusNotFound => handler[p].expect \notin DOMAIN buckets

C22_Witness ==
    \E p \in Procs :
        /\ handler[p].pc = "done"
        /\ handler[p].op = "download"
        /\ handler[p].expect = "B"
        /\ handler[p].status = StatusOK
        /\ handler[p].answer = "B"

\* C23. Placing a key that has a record never changes the bucket_name of the
\* record.
C23_BucketNameNeverChanges ==
    [][\A k \in Keys :
          (store[k] # NoRecord /\ store'[k] # NoRecord)
          => store'[k].bucket = store[k].bucket]_vars

\* C24. A download, delete-presign or object-info request for a key received after
\* a DELETE of the key has succeeded, the key not having been placed again, is
\* answered with 404 and names no bucket.
C24_DeletedKeyNotFound ==
    \A p \in Procs :
        (/\ handler[p].pc = "done"
         /\ handler[p].op \in Lookups
         /\ handler[p].after)
        => /\ handler[p].status = StatusNotFound
           /\ handler[p].answer = NoBucket

C24_Witness ==
    \E p \in Procs :
        /\ handler[p].pc = "done"
        /\ handler[p].op = "download"
        /\ handler[p].after
        /\ handler[p].status = StatusNotFound

\* C25. A DELETE of a key received after a DELETE of the key has succeeded, the
\* key not having been placed again, succeeds too.
C25_DeleteIdempotent ==
    \A p \in Procs :
        (/\ handler[p].pc = "done"
         /\ handler[p].op = "delete"
         /\ handler[p].after)
        => handler[p].status = StatusOK

\* C26. Whenever no request is in flight, no bucket of the registry has a negative
\* used_size.
C26_UsedSizeNonNegative ==
    (\A p \in Procs : handler[p].pc = "idle")
    => \A n \in DOMAIN buckets : buckets[n].used >= 0

\* C27. Every response carries the status code of its error kind: invalid argument
\* 400, not found 404, no available backend 503, insufficient capacity 503, and a
\* failed backend call 502.
C27_StatusPerErrorKind ==
    \A p \in Procs :
        handler[p].pc = "done"
        => /\ handler[p].kind = "InvalidArgument" => handler[p].status = StatusBadRequest
           /\ handler[p].kind = "NotFound" => handler[p].status = StatusNotFound
           /\ handler[p].kind = "NoAvailableBackend"
                 => handler[p].status = StatusServiceUnavailable
           /\ handler[p].kind = "InsufficientCapacity"
                 => handler[p].status = StatusServiceUnavailable
           /\ handler[p].kind = "BackendFailure" => handler[p].status = StatusBadGateway

\* C28. A download or delete-presign request that has found a record whose bucket
\* is not in the registry ends with 404 NotFound, names no bucket, and leaves the
\* store and the registry as they were.
C28_ReaderToleratesRemovedBucket ==
    [][\A p \in Procs :
          (/\ handler[p].pc = "getbucket"
           /\ handler[p].bucket \notin DOMAIN buckets
           /\ handler'[p] # handler[p])
          => /\ handler'[p].pc = "done"
             /\ handler'[p].status = StatusNotFound
             /\ handler'[p].kind = "NotFound"
             /\ handler'[p].answer = NoBucket
             /\ store' = store
             /\ buckets' = buckets]_vars

C28_Witness ==
    \E p \in Procs :
        /\ handler[p].pc = "done"
        /\ handler[p].op \in {"download", "presign-delete"}
        /\ handler[p].bucket \in Names
        /\ handler[p].bucket \notin DOMAIN buckets
        /\ handler[p].status = StatusNotFound

\* C29. A bucket that RecordOperation has disabled and that has not been reset
\* since is not among the available buckets, whatever the health probes report,
\* and no SelectBucket call that read the available buckets while the bucket was
\* disabled returns it.
C29_CounterDisabledStaysOut ==
    /\ \A n \in limited : n \notin SeqToSet(GetAvailableBuckets(buckets))
    /\ \A p \in Procs :
          (pc[p] = "done" /\ ret[p].err = "ok") => ret[p].bucket \notin seen[p]

\* C30. After ReportStats has been called with Stats{target, used_size = u} for a
\* bucket of the registry, and until the next reservation or delete on that bucket,
\* the bucket's used_size is u, with or without metrics.
C30_StatsCorrectUsedSize ==
    stats.id \in DOMAIN buckets => buckets[stats.id].used = stats.used

\* C31. The reservation step of a successful upload or multipart presign adds
\* exactly the request's size to the used_size of the selected bucket and leaves the
\* used_size of every other bucket, and the set of buckets, as they were.
C31_ReservationOnSelectedOnly ==
    [][\A p \in Procs :
          (handler[p].pc = "reserve" /\ handler'[p].pc = "done")
          => /\ handler'[p].status = StatusOK
             /\ DOMAIN buckets' = DOMAIN buckets
             /\ \A n \in DOMAIN buckets :
                   buckets'[n].used =
                      buckets[n].used + (IF n = handler[p].bucket THEN handler[p].size ELSE 0)]_vars

C31_Witness ==
    \E p \in Procs :
        /\ handler[p].pc = "done"
        /\ handler[p].op = "upload"
        /\ handler[p].status = StatusOK
        /\ handler[p].answer = "A"
        /\ DOMAIN buckets = {"A", "B"}
        /\ buckets["A"].used = handler[p].size
        /\ buckets["B"].used = 0

\* C32. One modification of the config file is reloaded once: when the poller or
\* the watcher starts to reload the first modification of the file, the last-known
\* modification time is not yet that of the file, that is, the other goroutine has
\* not already taken the same modification.
C32_OneReloadPerModification ==
    [][\A r \in Reloaders :
          (writes = 1 /\ reloader[r].pc = "wait" /\ reloader'[r].pc = "load")
             => lastModTime # file.mtime]_vars

\* C33. A finished GenerateMultipartUploadURLs call has either returned the
\* upload it created with a URL for each of the part numbers 1..partCount, each for
\* its own part of that upload, and has aborted nothing; or has failed at a part,
\* returned nil and issued an abort for the upload it created; or has failed to
\* create the upload and returned nil. A nil result goes with an error, and no
\* result holds URLs for only some of the parts.
C33_AllPartsOrAbort ==
    mp.pc = "done"
       => \/ /\ mp.err = "none"
             /\ mp.result # Nil
             /\ mp.result[1].UploadID \in UploadIds
             /\ DOMAIN mp.result[1].PartURLs = 1 .. mp.partCount
             /\ \A i \in 1 .. mp.partCount :
                   mp.result[1].PartURLs[i] =
                      [bucket |-> mp.bucket, key |-> mp.key,
                       upload |-> mp.result[1].UploadID, part |-> i]
             /\ mp.aborted = {}
          \/ /\ mp.err = "part"
             /\ mp.result = Nil
             /\ mp.upload \in UploadIds
             /\ mp.aborted = {mp.upload}
          \/ /\ mp.err = "create"
             /\ mp.result = Nil
             /\ mp.upload = NoUpload
             /\ mp.aborted = {}

C33_Witness ==
    /\ mp.pc = "done"
    /\ mp.partCount = 3
    /\ mp.err = "part"
    /\ DOMAIN mp.partURLs = {1, 2}
    /\ mp.result = Nil
    /\ mp.aborted = {mp.upload}

\* C34. When authentication is not required every request reaches the wrapped
\* handler. When it is required, the wrapped handler is invoked exactly for the
\* requests whose Authorization header is "Basic " followed by the encoding of a
\* text that holds a colon, with the configured access key before its first colon
\* and the configured secret key after it; every other request is answered with
\* an error code and does not reach the wrapped handler. For an access key
\* without a colon the accepted header is the encoding of access:secret and no other.
C34_InvokedIffCredentialsMatch ==
    auth.pc = "done"
       => LET access == IF auth.credentials = NoCredentials THEN <<>>
                        ELSE auth.credentials[1].access
              secret == IF auth.credentials = NoCredentials THEN <<>>
                        ELSE auth.credentials[1].secret
              matches ==
                 \E text \in Strings(Chars, MaxText) :
                    /\ auth.header = <<"Basic", " ">> \o EncodeToString(text)
                    /\ \E k \in DOMAIN text :
                          /\ text[k] = ":"
                          /\ \A j \in 1 .. (k - 1) : text[j] # ":"
                          /\ SubSeq(text, 1, k - 1) = access
                          /\ SubSeq(text, k + 1, Len(text)) = secret
          IN /\ auth.invoked <=> (auth.code = "none")
             /\ auth.required # "true" => auth.invoked
             /\ auth.required = "true" => (auth.invoked <=> matches)
             /\ (auth.required = "true" /\ \A j \in DOMAIN access : access[j] # ":")
                   => (auth.invoked <=>
                          auth.header = <<"Basic", " ">>
                                           \o EncodeToString(access \o <<":">> \o secret))

C34_Witness ==
    /\ auth.pc = "done"
    /\ auth.required = "true"
    /\ auth.credentials = <<[access |-> <<"a">>, secret |-> <<":", "s">>]>>
    /\ auth.header = <<"Basic", " ", "A", "C", "C", "S">>
    /\ auth.invoked

\* C35. A successful ConsistentHashStrategy.SelectBucket returns a member of the
\* slice of buckets it was called with.
C35_ReturnsMemberOfOwnList ==
    \A p \in Procs :
        (pc[p] = "done" /\ ret[p].err = "ok" /\ Len(elig[p]) > 0)
            => \E i \in DOMAIN elig[p] : elig[p][i] = ret[p].bucket

\* C36. No subscriber receives an older snapshot after a newer one: when a
\* callback goroutine invokes a subscriber, no goroutine started by a later swap
\* with another snapshot has invoked that subscriber already.
C36_NoOlderAfterNewer ==
    [][\A i \in DOMAIN notifs :
          (Len(notifs') = Len(notifs) /\ notifs'[i].calls # notifs[i].calls)
             => \A j \in DOMAIN notifs :
                   (j > i /\ notifs[j].cfg # notifs[i].cfg)
                      => \A c \in DOMAIN notifs[j].calls :
                            notifs[j].calls[c] # notifs[i].list[notifs[i].idx]]_vars

\* The sum of the sizes of the placement records that name bucket n
RECURSIVE RecordedSize(_, _, _)
RecordedSize(st, n, keys) ==
    IF keys = {} THEN 0
    ELSE LET k == CHOOSE x \in keys : TRUE
         IN (IF st[k].bucket = n THEN st[k].size ELSE 0) + RecordedSize(st, n, keys \ {k})

\* C37. With no request in flight, the used_size of every bucket of the registry
\* is the sum of the sizes of the placement records that name it.
C37_UsedSizeIsSumOfRecords ==
    (\A p \in Procs : handler[p].pc = "idle")
        => \A n \in DOMAIN buckets : buckets[n].used = RecordedSize(store, n, Keys)

\* C38. No bucket is over its capacity: used_size <= max_size_bytes for every
\* bucket of the registry, whatever uploads and multipart uploads are served.
C38_NeverOverCapacity ==
    \A n \in DOMAIN buckets : buckets[n].used <= buckets[n].max

\* C39. A request that fails leaves placement state unchanged: a request answered
\* with an error status has written no placement record and has changed no
\* bucket's used_size.
C39_FailedRequestChangesNothing ==
    \A p \in Procs :
        (handler[p].pc = "done" /\ handler[p].status # StatusOK)
            => /\ handler[p].delta = 0
               /\ handler[p].recorded = "pending"

====
